---- MODULE Spec2Model ----
(***************************************************************************)
(* Smart-Compat: the layered package-conflict classification pipeline.     *)
(*                                                                         *)
(* Representation.                                                         *)
(*  - A version string is the sequence of its dot-separated numeric        *)
(*    segments: "2.12.0" is <<2, 12, 0>>, "2.0" is <<2, 0>>.  Two version   *)
(*    strings are the same string iff the sequences are equal.             *)
(*  - A constraint string is the sequence of its comma-separated clauses,  *)
(*    each [op, ver]: ">=1.20.0,<2.12.0" is two clauses, "*" is Star, the   *)
(*    empty string is <<>>, a bare version "2.0.0" is a clause with op "". *)
(*  - A package specification "name<op><version>" is [name, spec], spec    *)
(*    being <<>> (no operator) or one clause with one of the five          *)
(*    operators parse_package_spec looks for.                              *)
(*    Python's None and the empty string are both <<>> where a constraint  *)
(*    is expected: every test the detectors make on one is a truth test.   *)
(*  - A registry answer is None or a PackageInfo record.                   *)
(*  - A boolean that a call may or may not read is "yes", "no" or "-"      *)
(*    (not read), so that a state records what the call consulted.         *)
(***************************************************************************)
EXTENDS Integers, Sequences, FiniteSets, TLC

None == [tag |-> "None"]

EmptyMap == [n \in {} |-> <<>>]

Star == <<[op |-> "*", ver |-> <<>>]>>

Clause(op, ver) == [op |-> op, ver |-> ver]

-----------------------------------------------------------------------------
(* Names and case folding (str.lower)                                      *)

Names == {"torch", "Torch", "tensorflow", "numpy", "scipy"}

\* "NumPy" is a spelling that appears only in dependency lists.
lower(name) ==
    CASE name = "Torch" -> "torch"
      [] name = "NumPy" -> "numpy"
      [] OTHER          -> name

-----------------------------------------------------------------------------
(* Version Model: basic.py parse_version / compare_versions                *)

\* parse_version succeeds iff the string has at least two numeric segments
\* (the three-segment pattern, or the "incomplete version" branch).
Parseable(version) == Len(version) >= 2

parse_version(version) ==
    IF Len(version) >= 3 THEN <<version[1], version[2], version[3]>>
    ELSE <<version[1], version[2], 0>>

TupleLess(a, b) ==
    \/ a[1] < b[1]
    \/ a[1] = b[1] /\ a[2] < b[2]
    \/ a[1] = b[1] /\ a[2] = b[2] /\ a[3] < b[3]

\* Faulty variant: equal versions compare as greater.
compare_versions_never_equal(version1, version2) ==
    IF ~Parseable(version1) \/ ~Parseable(version2) THEN 0
    ELSE IF TupleLess(parse_version(version1), parse_version(version2)) THEN -1
    ELSE 1

compare_versions(version1, version2) ==
    IF ~Parseable(version1) \/ ~Parseable(version2) THEN 0
    ELSE LET v1 == parse_version(version1)
             v2 == parse_version(version2)
         IN  IF TupleLess(v1, v2) THEN -1
             ELSE IF TupleLess(v2, v1) THEN 1
             ELSE 0

SpecOps == {"==", ">=", "<=", ">", "<"}

\* The text that follows the leading operator of a constraint string, as the
\* version parser sees it: parse_version cuts at the first character that is
\* neither a digit nor a dot, so only the first clause's version is read, and
\* a string that starts with an operator the caller did not strip reads as
\* the empty (unparseable) version.
LeadingVersion(required_spec, stripped) ==
    IF required_spec[1].op \in stripped THEN required_spec[1].ver ELSE <<>>

\* basic.py check_version_compatibility(installed_version, required_spec)
check_version_compatibility(installed_version, required_spec) ==
    IF required_spec = <<>> \/ required_spec = Star
    THEN TRUE
    ELSE LET op == required_spec[1].op
             req_version == LeadingVersion(required_spec, SpecOps \cup {""})
             c == compare_versions(installed_version, req_version)
         IN  CASE op = ">=" -> c >= 0
               [] op = "<=" -> c <= 0
               [] op = ">"  -> c > 0
               [] op = "<"  -> c < 0
               [] op = "==" -> c = 0
               [] OTHER     -> c = 0

\* The constraint a specification splits into at its operator `op`: the
\* operator is kept (keep = TRUE) or dropped, leaving a bare version.
SplitAt(package_spec, op, keep) ==
    [name |-> package_spec.name,
     version_spec |-> <<Clause(IF keep THEN op ELSE "", package_spec.spec[1].ver)>>]

\* Whether the operator text occurs in the specification string: ">" also
\* occurs inside ">=", "<" inside "<=".
Contains(package_spec, op) ==
    /\ package_spec.spec # <<>>
    /\ \/ package_spec.spec[1].op = op
       \/ op = ">" /\ package_spec.spec[1].op = ">="
       \/ op = "<" /\ package_spec.spec[1].op = "<="

\* basic.py parse_package_spec: the operators are looked for in the order
\* ==, >=, <=, >, <; the constraint keeps its operator.
parse_package_spec(package_spec) ==
    CASE Contains(package_spec, "==") -> SplitAt(package_spec, "==", TRUE)
      [] Contains(package_spec, ">=") -> SplitAt(package_spec, ">=", TRUE)
      [] Contains(package_spec, "<=") -> SplitAt(package_spec, "<=", TRUE)
      [] Contains(package_spec, ">")  -> SplitAt(package_spec, ">", TRUE)
      [] Contains(package_spec, "<")  -> SplitAt(package_spec, "<", TRUE)
      [] OTHER -> [name |-> package_spec.name, version_spec |-> <<>>]

\* universal_detector.py _parse_package_spec: as above, except that "==" is
\* dropped and the bare version is returned.
_parse_package_spec(package_spec) ==
    CASE Contains(package_spec, "==") -> SplitAt(package_spec, "==", FALSE)
      [] Contains(package_spec, ">=") -> SplitAt(package_spec, ">=", TRUE)
      [] Contains(package_spec, "<=") -> SplitAt(package_spec, "<=", TRUE)
      [] Contains(package_spec, ">")  -> SplitAt(package_spec, ">", TRUE)
      [] Contains(package_spec, "<")  -> SplitAt(package_spec, "<", TRUE)
      [] OTHER -> [name |-> package_spec.name, version_spec |-> <<>>]

\* universal_detector.py _check_version_match(installed_version, required_spec)
_check_version_match(installed_version, required_spec) ==
    IF required_spec = <<>> \/ required_spec = Star
    THEN TRUE
    ELSE LET op == required_spec[1].op
             req_version == LeadingVersion(required_spec, SpecOps \cup {""})
             c == compare_versions(installed_version, req_version)
         IN  CASE op = ">=" -> c >= 0
               [] op = "<=" -> c <= 0
               [] op = ">"  -> c > 0
               [] op = "<"  -> c < 0
               [] OTHER     -> c = 0

-----------------------------------------------------------------------------
(* core/types.py: ConflictType, PackageInfo, ConflictResult                *)

ConflictType ==
    {"VERSION_CONFLICT", "DEPENDENCY_CONFLICT", "NAME_CONFLICT",
     "PEER_DEPENDENCY_CONFLICT", "PACKAGE_NOT_FOUND", "NO_CONFLICT"}

PackageInfo(name, version, dependencies, dev_dependencies, peer_dependencies) ==
    [name |-> name, version |-> version, dependencies |-> dependencies,
     dev_dependencies |-> dev_dependencies,
     peer_dependencies |-> peer_dependencies]

\* message is the fixed leading phrase of the result's message, details the
\* set of keys of its details dictionary, n the number of conflicts listed.
ConflictResult(conflict_type, message, severity, details, n) ==
    [conflict_type |-> conflict_type, message |-> message,
     severity |-> severity, details |-> details, n |-> n]

-----------------------------------------------------------------------------
(* The registries the detectors query.  Which packages are present, and at *)
(* which version, is chosen freely at each lookup; what a given release    *)
(* requires is fixed by the tables below.                                  *)

Versions == {<<1, 20, 0>>, <<2, 0, 0>>, <<2, 12, 0>>}

MaxSharedDeps == 4

DepNames == <<"dep1", "dep2", "dep3", "dep4", "dep5", "dep6">>

SharedDeps(k) == {DepNames[i] : i \in 1..k}

Caret(major) == <<Clause("^", <<major, 0, 0>>)>>

\* `pip show` lists the names of the required distributions only, so every
\* dependency of a pip descriptor carries "*".
PipRequires(name) ==
    IF name = "numpy" THEN EmptyMap ELSE [n \in {"numpy"} |-> Star]

NpmDependencies(name, version) ==
    CASE name = "torch"      -> [n \in SharedDeps(MaxSharedDeps) |-> Caret(1)]
      [] name = "tensorflow" -> [n \in SharedDeps(MaxSharedDeps) |-> Caret(2)]
      [] name = "numpy"      -> [n \in SharedDeps(3) |->
                                    IF n = DepNames[1] THEN Star ELSE Caret(2)]
      [] OTHER               -> EmptyMap

NpmDevDependencies(name, version) ==
    IF name = "tensorflow" /\ version = <<2, 12, 0>>
    THEN [n \in SharedDeps(1) |-> Caret(1)]
    ELSE EmptyMap

NpmPeerDependencies(name, version) ==
    IF name = "scipy" THEN [n \in SharedDeps(1) |-> Caret(1)] ELSE EmptyMap

\* requires_dist of a PyPI release, after the name/constraint split.
PyPIRequiresDist(name, version) ==
    CASE name = "scipy"      -> [n \in {"numpy"} |->
                                    IF version = <<2, 0, 0>>
                                    THEN <<Clause(">=", <<2, 0, 0>>)>>
                                    ELSE <<Clause(">=", <<1, 20, 0>>)>>]
      [] name = "tensorflow" -> [n \in {"numpy"} |->
                                    <<Clause(">=", <<1, 20, 0>>),
                                      Clause("<", <<2, 12, 0>>)>>]
      [] name = "torch"      -> [n \in {"NumPy"} |->
                                    IF version = <<2, 12, 0>> THEN <<>>
                                    ELSE <<Clause("<", <<2, 0, 0>>)>>]
      [] OTHER               -> EmptyMap

\* adapters/pip_adapter.py get_package_info, basic.py get_package_info_from_pip:
\* the descriptor of the installed distribution, or None when pip show fails.
pip_show(package_name) ==
    {None} \cup
    {PackageInfo(lower(package_name), v, PipRequires(lower(package_name)),
                 None, None) : v \in Versions}

\* adapters/npm_adapter.py get_package_info
npm_view(package_name) ==
    {None} \cup
    {PackageInfo(lower(package_name), v,
                 NpmDependencies(lower(package_name), v),
                 NpmDevDependencies(lower(package_name), v),
                 NpmPeerDependencies(lower(package_name), v)) : v \in Versions}

NotConsulted == [tag |-> "NotConsulted"]

Found(info) == info # None /\ info # NotConsulted

\* Python's truth test on an optional dictionary.
Truthy(map) == map # None /\ DOMAIN map # {}

\* The PyPI JSON API as core/hypothetical_detector.py queries it.  An answer
\* says whether the project exists at all and carries the descriptor the
\* detector builds (None when the project or the release is missing).
\* _get_package_info_from_pypi stores the version it was asked for.
_get_package_info_from_pypi(package_name, version) ==
    {[exists |-> "no", info |-> None], [exists |-> "yes", info |-> None],
     [exists |-> "yes",
      info |-> PackageInfo(lower(package_name), version,
                           PyPIRequiresDist(lower(package_name), version),
                           None, None)]}

_get_latest_package_info_from_pypi(package_name) ==
    {[exists |-> "no", info |-> None]} \cup
    {[exists |-> "yes",
      info |-> PackageInfo(lower(package_name), v,
                           PyPIRequiresDist(lower(package_name), v),
                           None, None)] : v \in Versions}

\* hypothetical_detector.py get_hypothetical_package_info: the leading operator
\* is stripped and the release with exactly that version is fetched.
get_hypothetical_package_info(package_name, version_spec) ==
    IF version_spec # <<>>
    THEN _get_package_info_from_pypi(package_name,
             LeadingVersion(version_spec, SpecOps \cup {""}))
    ELSE _get_latest_package_info_from_pypi(package_name)

-----------------------------------------------------------------------------
(* PEP 440 membership as packaging.specifiers.SpecifierSet decides it for   *)
(* final releases: releases are compared segment by segment after padding  *)
(* with zeros, and every clause of the set must hold.                      *)

Pad(version) == [i \in 1..3 |-> IF i <= Len(version) THEN version[i] ELSE 0]

ClauseHolds(version, clause) ==
    LET v == Pad(version)
        r == Pad(clause.ver)
    IN  CASE clause.op = ">=" -> ~TupleLess(v, r)
          [] clause.op = "<=" -> ~TupleLess(r, v)
          [] clause.op = ">"  -> TupleLess(r, v)
          [] clause.op = "<"  -> TupleLess(v, r)
          [] clause.op = "==" -> v = r
          \* compatible release: ~=V.N is >=V.N together with ==V.*, the
          \* prefix being the release as written less its last segment; a
          \* one-segment release is an InvalidSpecifier.
          [] clause.op = "~=" -> /\ Len(clause.ver) >= 2
                                 /\ ~TupleLess(v, r)
                                 /\ \A i \in 1..(Len(clause.ver) - 1) : v[i] = r[i]
          [] OTHER            -> FALSE

VersionInSpecifierSet(version, constraint) ==
    \A i \in 1..Len(constraint) : ClauseHolds(version, constraint[i])

\* hypothetical_detector.py _version_satisfies_constraint
_version_satisfies_constraint(version, constraint) ==
    IF constraint = <<>> \/ constraint = Star THEN TRUE
    ELSE VersionInSpecifierSet(version, constraint)

\* version_resolver.py _generate_test_versions: major.minor.patch for majors
\* 0..GridMajorMax, minors 0..GridMinorMax, patches 0..GridPatchMax.  The
\* pre-releases it adds satisfy none of the constraints used here unless a
\* final release of the grid does too.
GridMajorMax == 9

GridMinorMax == 19

GridPatchMax == 9

_generate_test_versions ==
    {<<major, minor, patch>> : major \in 0..GridMajorMax,
                               minor \in 0..GridMinorMax,
                               patch \in 0..GridPatchMax}

\* version_resolver.py check_constraints_compatibility: 'compatible' is whether
\* some test version satisfies both constraints.
check_constraints_compatibility(constraint1, constraint2) ==
    \E ver \in _generate_test_versions :
        /\ VersionInSpecifierSet(ver, constraint1)
        /\ VersionInSpecifierSet(ver, constraint2)

-----------------------------------------------------------------------------
(* core/advanced_detector.py: the static tables and their checks           *)

\* extract_major_minor_version: the first two segments.
extract_major_minor_version(version) ==
    IF Len(version) >= 2 THEN <<version[1], version[2]>> ELSE version

\* system_conflicts['cuda_conflicts'], a row being (package, major.minor) and
\* its required CUDA and cuDNN versions.
cuda_conflicts ==
    {<<"tensorflow", <<2, 8>>, "11.2", "8.1">>, <<"tensorflow", <<2, 9>>, "11.2", "8.1">>,
     <<"tensorflow", <<2, 10>>, "11.2", "8.1">>, <<"tensorflow", <<2, 11>>, "11.2", "8.1">>,
     <<"tensorflow", <<2, 12>>, "11.8", "8.6">>, <<"tensorflow", <<2, 13>>, "11.8", "8.6">>,
     <<"tensorflow", <<2, 14>>, "11.8", "8.7">>, <<"tensorflow", <<2, 15>>, "12.2", "8.9">>,
     <<"tensorflow", <<2, 16>>, "12.3", "8.9">>, <<"tensorflow", <<2, 17>>, "12.3", "8.9">>,
     <<"tensorflow", <<2, 18>>, "12.3", "8.9">>,
     <<"torch", <<1, 12>>, "11.3", "8.3">>, <<"torch", <<1, 13>>, "11.6", "8.3">>,
     <<"torch", <<2, 0>>, "11.7", "8.5">>, <<"torch", <<2, 1>>, "11.8", "8.7">>,
     <<"torch", <<2, 2>>, "11.8", "8.7">>, <<"torch", <<2, 3>>, "11.8", "8.7">>,
     <<"torch", <<2, 4>>, "12.1", "8.9">>, <<"torch", <<2, 5>>, "12.1", "8.9">>,
     <<"torch", <<2, 6>>, "12.4", "9.1">>}

\* _get_cuda_requirements: the row of the package at that major.minor, or None.
_get_cuda_requirements(package_name, version) ==
    LET rows == {r \in cuda_conflicts :
                    /\ lower(r[1]) = lower(package_name)
                    /\ r[2] = extract_major_minor_version(version)}
    IN  IF rows = {} THEN None
        ELSE LET r == CHOOSE x \in rows : TRUE
             IN  [cuda_version |-> r[3], cudnn_version |-> r[4]]

\* check_system_level_conflicts: the types of the conflicts it lists.
check_system_level_conflicts(pkg1_info, pkg2_info) ==
    LET pkg1_cuda == _get_cuda_requirements(pkg1_info.name, pkg1_info.version)
        pkg2_cuda == _get_cuda_requirements(pkg2_info.name, pkg2_info.version)
    IN  IF pkg1_cuda # None /\ pkg2_cuda # None
        THEN (IF pkg1_cuda.cuda_version # pkg2_cuda.cuda_version
              THEN {"cuda_version_conflict"} ELSE {})
             \cup
             (IF pkg1_cuda.cudnn_version # pkg2_cuda.cudnn_version
              THEN {"cudnn_version_conflict"} ELSE {})
        ELSE {}

\* known_incompatibilities: a row is the pair (pkg_a, pkg_b), the constraint
\* stored under the key pkg_a + "_version" and the one under pkg_b + "_version"
\* (<<>> when the entry has no such key, as for 'scikit-learn', whose entry
\* spells the key 'sklearn_version'), and the row's number in its list.
known_incompatibilities ==
    {[pkg_a |-> "numpy", pkg_b |-> "scipy", row |-> 1,
      a_constraint |-> <<Clause("<", <<1, 23, 0>>)>>,
      b_constraint |-> <<Clause(">=", <<1, 9, 0>>)>>],
     [pkg_a |-> "numpy", pkg_b |-> "scipy", row |-> 2,
      a_constraint |-> <<Clause("<", <<1, 21, 0>>)>>,
      b_constraint |-> <<Clause(">=", <<1, 8, 0>>)>>],
     [pkg_a |-> "pandas", pkg_b |-> "numpy", row |-> 1,
      a_constraint |-> <<Clause(">=", <<2, 0, 0>>)>>,
      b_constraint |-> <<Clause("<", <<1, 21, 0>>)>>],
     [pkg_a |-> "scikit-learn", pkg_b |-> "numpy", row |-> 1,
      a_constraint |-> <<>>,
      b_constraint |-> <<Clause("<", <<1, 21, 0>>)>>]}

\* advanced_detector.py _version_matches_constraint
_version_matches_constraint(version, constraint) ==
    IF constraint = <<>> THEN TRUE
    ELSE LET op == constraint[1].op
             c == compare_versions(version, constraint[1].ver)
         IN  CASE op = ">=" -> c >= 0
               [] op = "<=" -> c <= 0
               [] op = ">"  -> c > 0
               [] op = "<"  -> c < 0
               [] OTHER     -> version = constraint[1].ver

\* _check_version_incompatibility
_check_version_incompatibility(pkg1_info, pkg2_info, incompatibility) ==
    LET first_is_a == lower(pkg1_info.name) = lower(incompatibility.pkg_a)
        pkg_a_info == IF first_is_a THEN pkg1_info ELSE pkg2_info
        pkg_b_info == IF first_is_a THEN pkg2_info ELSE pkg1_info
    IN  /\ _version_matches_constraint(pkg_a_info.version, incompatibility.a_constraint)
        /\ _version_matches_constraint(pkg_b_info.version, incompatibility.b_constraint)

\* check_transitive_dependency_conflicts: the rows that match.
check_transitive_dependency_conflicts(pkg1_info, pkg2_info) ==
    {i \in known_incompatibilities :
        /\ \/ /\ lower(pkg1_info.name) = lower(i.pkg_a)
              /\ lower(pkg2_info.name) = lower(i.pkg_b)
           \/ /\ lower(pkg1_info.name) = lower(i.pkg_b)
              /\ lower(pkg2_info.name) = lower(i.pkg_a)
        /\ _check_version_incompatibility(pkg1_info, pkg2_info, i)}

-----------------------------------------------------------------------------
(* detectors/basic.py: PackageConflictDetector                             *)

SameName(pkg1_name, pkg2_name) == lower(pkg1_name) = lower(pkg2_name)

\* Faulty variants of the name check: one that never compares the two
\* constraints, one that reports a name conflict only when neither
\* specification carries a constraint.
name_conflict_check_uncompared(pkg1_version_spec, pkg2_version_spec) ==
    IF pkg1_version_spec # <<>> /\ pkg2_version_spec # <<>>
    THEN ConflictResult("NO_CONFLICT", "Same package with same version",
                        "low", {"package", "version"}, 0)
    ELSE ConflictResult("NAME_CONFLICT", "Name conflict", "high", {"packages"}, 0)

name_conflict_check_either(pkg1_version_spec, pkg2_version_spec) ==
    IF pkg1_version_spec # <<>> \/ pkg2_version_spec # <<>>
    THEN IF pkg1_version_spec # pkg2_version_spec
         THEN ConflictResult("VERSION_CONFLICT", "Version conflict", "high",
                             {"package", "version1", "version2"}, 0)
         ELSE ConflictResult("NO_CONFLICT", "Same package with same version",
                             "low", {"package", "version"}, 0)
    ELSE ConflictResult("NAME_CONFLICT", "Name conflict", "high", {"packages"}, 0)

\* "1. Check name conflicts", the branch taken when the two names agree; the
\* same lines open the universal and the hypothetical entry points.
name_conflict_check(pkg1_version_spec, pkg2_version_spec) ==
    IF pkg1_version_spec # <<>> /\ pkg2_version_spec # <<>>
    THEN IF pkg1_version_spec # pkg2_version_spec
         THEN ConflictResult("VERSION_CONFLICT", "Version conflict", "high",
                             {"package", "version1", "version2"}, 0)
         ELSE ConflictResult("NO_CONFLICT", "Same package with same version",
                             "low", {"package", "version"}, 0)
    ELSE ConflictResult("NAME_CONFLICT", "Name conflict", "high", {"packages"}, 0)

\* check_package_version_compatibility
check_package_version_compatibility(package_info, version_spec) ==
    IF version_spec = <<>> THEN TRUE
    ELSE check_version_compatibility(package_info.version, version_spec)

\* Faulty variant: the severity never rises for a version that does not exist.
_generate_version_mismatch_result_flat(required_spec, enable_suggestions, version_exists) ==
    ConflictResult("VERSION_CONFLICT", "Version mismatch", "medium",
        {"package", "installed_version", "required"}, 0)

\* _generate_version_mismatch_result.  version_exists is the suggester's
\* 'version_exists' answer ("no" also when its query fails); it is asked
\* only with suggestions enabled and an "==" requirement.
_generate_version_mismatch_result(required_spec, enable_suggestions, version_exists) ==
    IF enable_suggestions = "yes" /\ required_spec[1].op = "==" /\ version_exists = "no"
    THEN ConflictResult("VERSION_CONFLICT", "Version not found", "high",
             {"package", "installed_version", "required", "version_check"}, 0)
    ELSE ConflictResult("VERSION_CONFLICT", "Version mismatch", "medium",
             {"package", "installed_version", "required"}, 0)

\* _generate_package_not_found_result.  suggestions is "some" when the
\* suggester returned any suggestion.  With a version_spec the method runs
\* `pip show` again; the package is as absent as it was a moment before.
_generate_package_not_found_result(version_spec, enable_suggestions, suggestions) ==
    LET details == {"error"} \cup
                   (IF enable_suggestions = "yes" /\ suggestions = "some"
                    THEN {"suggestions"} ELSE {})
    IN  IF version_spec # <<>>
        THEN ConflictResult("PACKAGE_NOT_FOUND", "Package not found", "warning",
                            details, 0)
        ELSE ConflictResult("PACKAGE_NOT_FOUND", "Cannot find package",
                            IF "suggestions" \in details THEN "info" ELSE "warning",
                            details, 0)

\* check_dependency_conflicts: the names it reports.  The method iterates over
\* the keys of each dependency map and stores each key as its own value, so
\* the two "full" requirements it compares are the dependency's name twice.
check_dependency_conflicts(pkg1, pkg2) ==
    LET deps1 == [dep \in DOMAIN pkg1.dependencies |-> dep]
        deps2 == [dep \in DOMAIN pkg2.dependencies |-> dep]
        common_deps == DOMAIN deps1 \cap DOMAIN deps2
    IN  {dep \in common_deps : deps1[dep] # deps2[dep]}

\* Faulty variant: the threshold is one too low.
DependencySeverityFrom3(n) == IF n >= 3 THEN "high" ELSE "medium"

\* severity = "high" if len(conflicts) > 3 else "medium"
DependencySeverity(n) == IF n > 3 THEN "high" ELSE "medium"

\* detect_conflicts past the name check, given what the lookups answered.
detect_conflicts(package1, package2, pkg1_info, pkg2_info, enable_suggestions, suggestions, version_exists) ==
    LET pkg1_version_spec == parse_package_spec(package1).version_spec
        pkg2_version_spec == parse_package_spec(package2).version_spec
    IN  IF SameName(parse_package_spec(package1).name, parse_package_spec(package2).name)
        THEN name_conflict_check(pkg1_version_spec, pkg2_version_spec)
        ELSE IF pkg1_info = None
        THEN _generate_package_not_found_result(pkg1_version_spec,
                 enable_suggestions, suggestions)
        ELSE IF pkg2_info = None
        THEN _generate_package_not_found_result(pkg2_version_spec,
                 enable_suggestions, suggestions)
        ELSE IF ~check_package_version_compatibility(pkg1_info, pkg1_version_spec)
        THEN _generate_version_mismatch_result(pkg1_version_spec,
                 enable_suggestions, version_exists)
        ELSE IF ~check_package_version_compatibility(pkg2_info, pkg2_version_spec)
        THEN _generate_version_mismatch_result(pkg2_version_spec,
                 enable_suggestions, version_exists)
        ELSE LET dependency_conflicts == check_dependency_conflicts(pkg1_info, pkg2_info)
             IN  IF dependency_conflicts # {}
                 THEN ConflictResult("DEPENDENCY_CONFLICT", "Dependency conflicts",
                          DependencySeverity(Cardinality(dependency_conflicts)),
                          {"conflicts", "pkg1", "pkg2"},
                          Cardinality(dependency_conflicts))
                 ELSE ConflictResult("NO_CONFLICT", "No conflicts found", "low",
                          {"pkg1", "pkg2"}, 0)

-----------------------------------------------------------------------------
(* core/universal_detector.py: UniversalPackageConflictDetector            *)

PackageManagers == {"pip", "npm", "maven"}

adapters == {"pip", "npm"}

Merge(deps, dev_dependencies) ==
    IF Truthy(dev_dependencies)
    THEN [n \in DOMAIN deps \cup DOMAIN dev_dependencies |->
             IF n \in DOMAIN dev_dependencies THEN dev_dependencies[n] ELSE deps[n]]
    ELSE deps

\* _are_constraints_compatible
_are_constraints_compatible(constraint1, constraint2) ==
    constraint1 = constraint2 \/ constraint1 = Star \/ constraint2 = Star

\* _check_dependency_conflicts: the names it reports.
_check_dependency_conflicts(pkg1, pkg2) ==
    LET all_deps1 == Merge(pkg1.dependencies, pkg1.dev_dependencies)
        all_deps2 == Merge(pkg2.dependencies, pkg2.dev_dependencies)
        common_deps == DOMAIN all_deps1 \cap DOMAIN all_deps2
    IN  {dep_name \in common_deps :
            /\ all_deps1[dep_name] # all_deps2[dep_name]
            /\ ~_are_constraints_compatible(all_deps1[dep_name], all_deps2[dep_name])}

\* One direction of _check_peer_dependency_conflicts: the peer dependencies of
\* `pkg` that `other` depends on under an incompatible constraint.
PeerConflicts(pkg, other) ==
    IF Truthy(pkg.peer_dependencies)
    THEN {peer_name \in DOMAIN pkg.peer_dependencies \cap DOMAIN other.dependencies :
             ~_are_constraints_compatible(pkg.peer_dependencies[peer_name],
                                          other.dependencies[peer_name])}
    ELSE {}

\* _check_peer_dependency_conflicts: how many conflicts it lists.
_check_peer_dependency_conflicts(pkg1, pkg2) ==
    Cardinality(PeerConflicts(pkg1, pkg2)) + Cardinality(PeerConflicts(pkg2, pkg1))

\* detect_conflicts(package1, package2, package_manager), given what the
\* adapter answered.  The version checks come before the not-found checks.
universal_detect_conflicts(package1, package2, package_manager, pkg1_info, pkg2_info) ==
    LET pkg1_version_spec == _parse_package_spec(package1).version_spec
        pkg2_version_spec == _parse_package_spec(package2).version_spec
    IN  IF package_manager \notin adapters
        THEN ConflictResult("NO_CONFLICT", "Unsupported package manager", "low", {}, 0)
        ELSE IF SameName(_parse_package_spec(package1).name, _parse_package_spec(package2).name)
        THEN name_conflict_check(pkg1_version_spec, pkg2_version_spec)
        ELSE IF /\ pkg1_info # None /\ pkg1_version_spec # <<>>
                /\ ~_check_version_match(pkg1_info.version, pkg1_version_spec)
        THEN ConflictResult("VERSION_CONFLICT", "Version mismatch", "medium",
                            {"package", "installed", "required"}, 0)
        ELSE IF /\ pkg2_info # None /\ pkg2_version_spec # <<>>
                /\ ~_check_version_match(pkg2_info.version, pkg2_version_spec)
        THEN ConflictResult("VERSION_CONFLICT", "Version mismatch", "medium",
                            {"package", "installed", "required"}, 0)
        ELSE IF pkg1_info = None \/ pkg2_info = None
        THEN ConflictResult("PACKAGE_NOT_FOUND", "Cannot find package", "warning",
                            {"error"}, 0)
        ELSE LET conflicts == _check_dependency_conflicts(pkg1_info, pkg2_info)
                 peer_conflicts ==
                     IF Truthy(pkg1_info.peer_dependencies)
                        \/ Truthy(pkg2_info.peer_dependencies)
                     THEN _check_peer_dependency_conflicts(pkg1_info, pkg2_info)
                     ELSE 0
             IN  IF conflicts # {}
                 THEN ConflictResult("DEPENDENCY_CONFLICT", "Dependency conflicts",
                          DependencySeverity(Cardinality(conflicts)),
                          {"conflicts", "pkg1", "pkg2"}, Cardinality(conflicts))
                 ELSE IF peer_conflicts > 0
                 THEN ConflictResult("PEER_DEPENDENCY_CONFLICT",
                          "Peer dependency conflicts", "medium",
                          {"peer_conflicts", "pkg1", "pkg2"}, peer_conflicts)
                 ELSE ConflictResult("NO_CONFLICT", "No conflicts found", "low",
                          {"pkg1", "pkg2"}, 0)

-----------------------------------------------------------------------------
(* core/advanced_detector.py: detect_advanced_conflicts                    *)

\* Faulty variant: every finding of the static tables is of severity high.
AdvancedConflictResultHigh(system_conflicts, transitive_conflicts, known_severity, known_message) ==
    ConflictResult("DEPENDENCY_CONFLICT",
        IF system_conflicts # {} THEN "System-level conflicts detected"
        ELSE known_message,
        "high", {"advanced_conflicts", "pkg1", "pkg2"},
        Cardinality(system_conflicts) + Cardinality(transitive_conflicts))

\* The result built from the static tables' findings; known_severity is the
\* severity of the branch without a CUDA or cuDNN finding.
AdvancedConflictResult(system_conflicts, transitive_conflicts, known_severity, known_message) ==
    IF system_conflicts # {}
    THEN ConflictResult("DEPENDENCY_CONFLICT", "System-level conflicts detected",
             "high", {"advanced_conflicts", "pkg1", "pkg2"},
             Cardinality(system_conflicts) + Cardinality(transitive_conflicts))
    ELSE ConflictResult("DEPENDENCY_CONFLICT", known_message, known_severity,
             {"advanced_conflicts", "pkg1", "pkg2"},
             Cardinality(transitive_conflicts))

detect_advanced_conflicts(package1, package2, pkg1_info, pkg2_info, enable_suggestions, suggestions, version_exists) ==
    LET standard_result == detect_conflicts(package1, package2, pkg1_info, pkg2_info,
                               enable_suggestions, suggestions, version_exists)
    IN  IF standard_result.conflict_type # "NO_CONFLICT" THEN standard_result
        ELSE IF pkg1_info = None \/ pkg2_info = None THEN standard_result
        ELSE LET system_conflicts == check_system_level_conflicts(pkg1_info, pkg2_info)
                 transitive_conflicts ==
                     check_transitive_dependency_conflicts(pkg1_info, pkg2_info)
             IN  IF system_conflicts # {} \/ transitive_conflicts # {}
                 THEN AdvancedConflictResult(system_conflicts, transitive_conflicts,
                          "high", "Dependency version conflicts detected")
                 ELSE standard_result

-----------------------------------------------------------------------------
(* core/hypothetical_detector.py: HypotheticalConflictDetector             *)

\* _generate_version_not_found_result
_generate_version_not_found_result(enable_suggestions, suggestions) ==
    ConflictResult("VERSION_CONFLICT", "Version not found on PyPI", "high",
        {"package", "requested_version", "operator", "error"} \cup
        (IF enable_suggestions = "yes" /\ suggestions = "some"
         THEN {"version_check"} ELSE {}), 0)

\* Faulty variant: a package that is not found without any suggestion is
\* labelled critical.
_generate_package_not_found_result_pypi_critical(enable_suggestions, suggestions) ==
    IF enable_suggestions = "yes" /\ suggestions = "some"
    THEN ConflictResult("PACKAGE_NOT_FOUND", "Package not found on PyPI", "info",
                        {"error", "suggestions"}, 0)
    ELSE ConflictResult("PACKAGE_NOT_FOUND", "Package not found on PyPI", "critical",
                        {"error"}, 0)

\* _generate_package_not_found_result_pypi
_generate_package_not_found_result_pypi(enable_suggestions, suggestions) ==
    IF enable_suggestions = "yes" /\ suggestions = "some"
    THEN ConflictResult("PACKAGE_NOT_FOUND", "Package not found on PyPI", "info",
                        {"error", "suggestions"}, 0)
    ELSE ConflictResult("PACKAGE_NOT_FOUND", "Package not found on PyPI", "warning",
                        {"error"}, 0)

\* Faulty variant: the dependency's name is compared with its case.
DirectViolationCased(pkg, other) ==
    /\ other.name \in DOMAIN pkg.dependencies
    /\ pkg.dependencies[other.name] # <<>>
    /\ ~_version_satisfies_constraint(other.version, pkg.dependencies[other.name])

\* One direction of _check_dependency_version_constraints: `pkg` depends on
\* `other` (names compared without case; the first matching entry's
\* constraint is taken) and other's version does not satisfy the constraint.
DirectViolation(pkg, other) ==
    LET matching == {dep_name \in DOMAIN pkg.dependencies :
                        lower(dep_name) = lower(other.name)}
    IN  /\ matching # {}
        /\ LET constraint == pkg.dependencies[CHOOSE d \in matching : TRUE]
           IN  /\ constraint # <<>>
               /\ ~_version_satisfies_constraint(other.version, constraint)

\* _check_dependency_version_constraints: how many violations it lists.
_check_dependency_version_constraints(pkg1_info, pkg2_info) ==
    (IF DirectViolation(pkg1_info, pkg2_info) THEN 1 ELSE 0)
    + (IF DirectViolation(pkg2_info, pkg1_info) THEN 1 ELSE 0)

\* detect_hypothetical_conflicts (hypothetical_mode on), given what PyPI answered.
detect_hypothetical_conflicts(package1, package2, pkg1_info, pkg2_info, enable_suggestions, suggestions) ==
    LET pkg1_version_spec == parse_package_spec(package1).version_spec
        pkg2_version_spec == parse_package_spec(package2).version_spec
    IN  IF SameName(parse_package_spec(package1).name, parse_package_spec(package2).name)
        THEN name_conflict_check(pkg1_version_spec, pkg2_version_spec)
        ELSE IF pkg1_info = None
        THEN IF pkg1_version_spec # <<>>
             THEN _generate_version_not_found_result(enable_suggestions, suggestions)
             ELSE _generate_package_not_found_result_pypi(enable_suggestions, suggestions)
        ELSE IF pkg2_info = None
        THEN IF pkg2_version_spec # <<>>
             THEN _generate_version_not_found_result(enable_suggestions, suggestions)
             ELSE _generate_package_not_found_result_pypi(enable_suggestions, suggestions)
        ELSE LET dependency_conflicts ==
                     _check_dependency_version_constraints(pkg1_info, pkg2_info)
                 system_conflicts == check_system_level_conflicts(pkg1_info, pkg2_info)
                 transitive_conflicts ==
                     check_transitive_dependency_conflicts(pkg1_info, pkg2_info)
             IN  IF dependency_conflicts > 0
                 THEN ConflictResult("DEPENDENCY_CONFLICT",
                          "Dependency version conflicts detected", "high",
                          {"dependency_conflicts", "pkg1", "pkg2"},
                          dependency_conflicts)
                 ELSE IF system_conflicts # {} \/ transitive_conflicts # {}
                 THEN AdvancedConflictResult(system_conflicts, transitive_conflicts,
                          "medium", "Advanced conflicts detected")
                 ELSE ConflictResult("NO_CONFLICT", "No conflicts found", "low",
                          {"pkg1", "pkg2"}, 0)

-----------------------------------------------------------------------------
(* detectors/enhanced.py: EnhancedConflictDetector                         *)

\* What simulate_pip_install reports: success, or the conflict_type its error
\* analysis extracts ("unknown" by default), or a timeout, which carries no
\* error analysis at all.
PipOutcomes ==
    {"success", "version_conflict", "dependency_resolution_failure",
     "circular_dependency", "unknown", "timeout"}

\* _create_pip_conflict_result
_create_pip_conflict_result(pip_result) ==
    LET details == {"pip_analysis", "resolver_method", "enhanced_detection"}
    IN  CASE pip_result = "version_conflict" ->
                 ConflictResult("VERSION_CONFLICT",
                     "Pip dependency resolver detected version conflicts",
                     "high", details, 0)
          [] pip_result = "dependency_resolution_failure" ->
                 ConflictResult("DEPENDENCY_CONFLICT",
                     "Pip dependency resolver failed to find compatible versions",
                     "high", details, 0)
          [] OTHER ->
                 ConflictResult("DEPENDENCY_CONFLICT",
                     "Pip dependency resolver detected conflicts",
                     "medium", details, 0)

\* _check_version_constraints: its 'has_conflicts'.
_check_version_constraints(package1, package2) ==
    LET pkg1 == parse_package_spec(package1)
        pkg2 == parse_package_spec(package2)
    IN  /\ SameName(pkg1.name, pkg2.name)
        /\ pkg1.version_spec # <<>>
        /\ pkg2.version_spec # <<>>
        /\ ~check_constraints_compatibility(pkg1.version_spec, pkg2.version_spec)

\* _create_constraint_conflict_result
_create_constraint_conflict_result ==
    ConflictResult("VERSION_CONFLICT", "Version constraint conflicts detected",
        "high", {"constraint_analysis", "resolver_method", "enhanced_detection"}, 1)

\* _enhance_basic_result: the verdict is kept, the details grow.
_enhance_basic_result(basic_result, use_pip_resolver, pip_result) ==
    [basic_result EXCEPT !.details =
        @ \cup {"constraint_analysis", "enhanced_detection", "detection_methods"}
          \cup (IF use_pip_resolver = "yes"
                THEN {"pip_analysis", "pip_confirmation"} ELSE {})]

\* detect_enhanced_conflicts, given the hypothetical detector's result and
\* what the pip simulation answered.
detect_enhanced_conflicts(package1, package2, basic_result, use_pip_resolver, pip_result) ==
    IF basic_result.conflict_type \in {"PACKAGE_NOT_FOUND", "VERSION_CONFLICT"}
    THEN basic_result
    ELSE IF use_pip_resolver = "yes" /\ pip_result # "success"
    THEN _create_pip_conflict_result(pip_result)
    ELSE IF _check_version_constraints(package1, package2)
    THEN _create_constraint_conflict_result
    ELSE _enhance_basic_result(basic_result, use_pip_resolver, pip_result)

-----------------------------------------------------------------------------
(* State.  A state is one detection call: its inputs, the configuration of *)
(* the detector it is made on, what each external query answered ("-" or  *)
(* NotConsulted when the call never made it) and the ConflictResult.       *)

VARIABLES pc, entry, package1, package2, package_manager, enable_suggestions, use_pip_resolver, pkg1_info, pkg2_info, pkg1_exists, pkg2_exists, suggestions, version_exists, pip_result, result, exit_code, args

vars == <<pc, entry, package1, package2, package_manager, enable_suggestions, use_pip_resolver, pkg1_info, pkg2_info, pkg1_exists, pkg2_exists, suggestions, version_exists, pip_result, result, exit_code, args>>

SpecVersions == {<<1, 20, 0>>, <<2, 0, 0>>}

\* The constraints a package specification may carry.
SpecConstraints ==
    {<<>>, <<Clause(">=", <<2, 0, 0>>)>>, <<Clause("<", <<2, 0, 0>>)>>}
    \cup {<<Clause("==", v)>> : v \in SpecVersions}

PackageSpecs == {[name |-> n, spec |-> c] : n \in Names, c \in SpecConstraints}

Flags == {"yes", "no"}

Exists(info) == IF info = None THEN "no" ELSE "yes"

Init ==
    /\ pc = "idle"
    /\ entry = "-"
    /\ package1 \in PackageSpecs
    /\ package2 \in PackageSpecs
    /\ package_manager = "-"
    /\ enable_suggestions = "-"
    /\ use_pip_resolver = "-"
    /\ pkg1_info = NotConsulted
    /\ pkg2_info = NotConsulted
    /\ pkg1_exists = "-"
    /\ pkg2_exists = "-"
    /\ suggestions = "-"
    /\ version_exists = "-"
    /\ pip_result = "-"
    /\ result = None
    /\ exit_code = -1
    /\ args = None

\* args holds the arguments of a function that is called on its own (None
\* during a detection call, whose arguments are package1 and package2).

\* The call returns r from entry point e.
Return(e, r) ==
    /\ pc' = "done"
    /\ entry' = e
    /\ result' = r
    /\ UNCHANGED <<package1, package2, exit_code, args>>

\* What a call leaves when an exception escapes it.
Raised(exception) == [tag |-> "Raised", exception |-> exception]

\* The call made no registry lookup.
NoLookup ==
    /\ pkg1_info' = NotConsulted
    /\ pkg2_info' = NotConsulted
    /\ pkg1_exists' = "-"
    /\ pkg2_exists' = "-"

\* The call looked both packages up and got these answers.
Lookup(info1, exists1, info2, exists2) ==
    /\ pkg1_info' = info1
    /\ pkg2_info' = info2
    /\ pkg1_exists' = exists1
    /\ pkg2_exists' = exists2

\* subprocess.run cannot start the lookup tool (pip or npm is not installed)
\* and raises FileNotFoundError.  get_package_info_from_pip and the adapters'
\* get_package_info catch CalledProcessError (and JSONDecodeError) only, and
\* the detection call has no handler of its own: the exception reaches the
\* caller of entry point e.  No descriptor was obtained.
LookupRaises(e) ==
    /\ pc' = "raised"
    /\ entry' = e
    /\ result' = Raised("FileNotFoundError")
    /\ NoLookup
    /\ UNCHANGED <<package1, package2, exit_code, args>>

\* What the call read of the suggester.
Suggester(es, sg, ve) ==
    /\ enable_suggestions' = es
    /\ suggestions' = sg
    /\ version_exists' = ve

\* The answers a flag or a suggester query can give when it is read.
ReadFlag(read) == IF read THEN Flags ELSE {"-"}

ReadSuggestions(read) == IF read THEN {"some", "none"} ELSE {"-"}

\* The requested constraint that detect_conflicts finds unsatisfied first,
\* <<>> when there is none.
FirstMismatch(info1, info2) ==
    LET spec1 == parse_package_spec(package1).version_spec
        spec2 == parse_package_spec(package2).version_spec
    IN  IF ~check_package_version_compatibility(info1, spec1) THEN spec1
        ELSE IF ~check_package_version_compatibility(info2, spec2) THEN spec2
        ELSE <<>>

\* A call of the basic detector's pipeline, by itself (detect_conflicts) or as
\* the first step of detect_advanced_conflicts (e names the entry point, Detect
\* is its function of the inputs and the answers).  detect_advanced_conflicts looks
\* the packages up again only when the pipeline returned NO_CONFLICT; all the
\* lookups of one detection see the same registry.
StandardCall(e) ==
    LET Detect(p1, p2, info1, info2, es, sg, ve) ==
            IF e = "detect_conflicts"
            THEN detect_conflicts(p1, p2, info1, info2, es, sg, ve)
            ELSE detect_advanced_conflicts(p1, p2, info1, info2, es, sg, ve)
    IN
    /\ package_manager' = "-"
    /\ use_pip_resolver' = "-"
    /\ pip_result' = "-"
    /\ IF /\ SameName(parse_package_spec(package1).name,
                      parse_package_spec(package2).name)
          /\ \/ e = "detect_conflicts"
             \/ name_conflict_check(parse_package_spec(package1).version_spec,
                                    parse_package_spec(package2).version_spec
                                   ).conflict_type # "NO_CONFLICT"
       THEN /\ NoLookup
            /\ Suggester("-", "-", "-")
            /\ Return(e, Detect(package1, package2, NotConsulted, NotConsulted,
                                "-", "-", "-"))
       ELSE \/ /\ LookupRaises(e)
               /\ Suggester("-", "-", "-")
            \/ \E info1 \in pip_show(parse_package_spec(package1).name),
               info2 \in pip_show(parse_package_spec(package2).name) :
               LET same == SameName(parse_package_spec(package1).name,
                                    parse_package_spec(package2).name)
                   missing == ~same /\ (info1 = None \/ info2 = None)
                   bad == IF same \/ missing THEN <<>> ELSE FirstMismatch(info1, info2)
               IN  \E es \in ReadFlag(missing \/ bad # <<>>) :
                   \E sg \in ReadSuggestions(missing /\ es = "yes") :
                   \E ve \in ReadFlag(bad # <<>> /\ es = "yes" /\ bad[1].op = "==") :
                       /\ Lookup(info1, Exists(info1), info2, Exists(info2))
                       /\ Suggester(es, sg, ve)
                       /\ Return(e, Detect(package1, package2, info1, info2,
                                           es, sg, ve))

\* PackageConflictDetector.detect_conflicts(package1, package2)
DetectConflicts ==
    /\ pc = "idle"
    /\ StandardCall("detect_conflicts")

\* AdvancedConflictDetector.detect_advanced_conflicts(package1, package2)
DetectAdvancedConflicts ==
    /\ pc = "idle"
    /\ StandardCall("detect_advanced_conflicts")

\* adapter.get_package_info of the adapter registered for the package manager
get_package_info(pm, package_name) ==
    IF pm = "pip" THEN pip_show(package_name) ELSE npm_view(package_name)

\* UniversalPackageConflictDetector.detect_conflicts(package1, package2, pm)
UniversalDetectConflicts ==
    /\ pc = "idle"
    /\ use_pip_resolver' = "-"
    /\ pip_result' = "-"
    /\ Suggester("-", "-", "-")
    /\ \E pm \in PackageManagers :
          /\ package_manager' = pm
          /\ IF pm \notin adapters
                \/ SameName(_parse_package_spec(package1).name,
                            _parse_package_spec(package2).name)
             THEN /\ NoLookup
                  /\ Return("universal_detect_conflicts",
                         universal_detect_conflicts(package1, package2, pm,
                             NotConsulted, NotConsulted))
             ELSE \/ LookupRaises("universal_detect_conflicts")
                  \/ \E info1 \in get_package_info(pm, _parse_package_spec(package1).name),
                     info2 \in get_package_info(pm, _parse_package_spec(package2).name) :
                     /\ Lookup(info1, Exists(info1), info2, Exists(info2))
                     /\ Return("universal_detect_conflicts",
                            universal_detect_conflicts(package1, package2, pm,
                                info1, info2))

\* A call of detect_hypothetical_conflicts, by itself or as the first step of
\* detect_enhanced_conflicts (enhanced = TRUE), which then consults the pip
\* simulation and the constraint resolver.
HypotheticalCall(e, enhanced) ==
    /\ package_manager' = "-"
    /\ version_exists' = "-"
    /\ LET pkg1 == parse_package_spec(package1)
           pkg2 == parse_package_spec(package2)
           Finish(basic_result) ==
               IF enhanced
               THEN \E upr \in ReadFlag(basic_result.conflict_type \notin
                                   {"PACKAGE_NOT_FOUND", "VERSION_CONFLICT"}) :
                    \E pip \in (IF upr = "yes" THEN PipOutcomes ELSE {"-"}) :
                        /\ use_pip_resolver' = upr
                        /\ pip_result' = pip
                        /\ Return(e, detect_enhanced_conflicts(package1, package2,
                                         basic_result, upr, pip))
               ELSE /\ use_pip_resolver' = "-"
                    /\ pip_result' = "-"
                    /\ Return(e, basic_result)
       IN  IF SameName(pkg1.name, pkg2.name)
           THEN /\ NoLookup
                /\ enable_suggestions' = "-"
                /\ suggestions' = "-"
                /\ Finish(detect_hypothetical_conflicts(package1, package2,
                              NotConsulted, NotConsulted, "-", "-"))
           ELSE \E a1 \in get_hypothetical_package_info(pkg1.name, pkg1.version_spec),
                   a2 \in get_hypothetical_package_info(pkg2.name, pkg2.version_spec) :
                   \E es \in ReadFlag(a1.info = None \/ a2.info = None) :
                   \E sg \in ReadSuggestions(es = "yes") :
                       /\ Lookup(a1.info, a1.exists, a2.info, a2.exists)
                       /\ enable_suggestions' = es
                       /\ suggestions' = sg
                       /\ Finish(detect_hypothetical_conflicts(package1, package2,
                                     a1.info, a2.info, es, sg))

\* HypotheticalConflictDetector.detect_hypothetical_conflicts(package1, package2)
DetectHypotheticalConflicts ==
    /\ pc = "idle"
    /\ HypotheticalCall("detect_hypothetical_conflicts", FALSE)

\* EnhancedConflictDetector.detect_enhanced_conflicts(package1, package2)
DetectEnhancedConflicts ==
    /\ pc = "idle"
    /\ HypotheticalCall("detect_enhanced_conflicts", TRUE)

-----------------------------------------------------------------------------
(* compat-cli.py: the exit code of the command line                        *)

\* The entry points that the subcommands basic, advanced, check and enhanced
\* call (cmd_basic, cmd_advanced, cmd_hypothetical, cmd_enhanced); each
\* command prints the verdict and returns it to main.
CliEntries ==
    {"detect_conflicts", "detect_advanced_conflicts",
     "detect_hypothetical_conflicts", "detect_enhanced_conflicts"}

\* Faulty variant: a conflict of medium severity exits with 2 as well.
ExitCodeMediumAsHigh(outcome) ==
    IF "exception" \in DOMAIN outcome THEN 1
    ELSE IF outcome.conflict_type = "NO_CONFLICT" THEN 0
    ELSE IF outcome.severity \in {"medium", "high", "critical"} THEN 2
    ELSE 1

\* main: the code handed to sys.exit for what the command returned, or 1 when
\* an exception escaped the command.
ExitCode(outcome) ==
    IF "exception" \in DOMAIN outcome THEN 1
    ELSE IF outcome.conflict_type = "NO_CONFLICT" THEN 0
    ELSE IF outcome.severity \in {"high", "critical"} THEN 2
    ELSE 1

\* main, after args.func(args) has returned or raised: the process exits.  (An
\* interrupt by the user, exit code 130, is not an outcome of the detection
\* and is left out.)
Main ==
    /\ pc \in {"done", "raised"}
    /\ entry \in CliEntries
    /\ pc' = "exited"
    /\ exit_code' = ExitCode(result)
    /\ UNCHANGED <<entry, package1, package2, package_manager, enable_suggestions,
                   use_pip_resolver, pkg1_info, pkg2_info, pkg1_exists,
                   pkg2_exists, suggestions, version_exists, pip_result, result, args>>

Next ==
    \/ DetectConflicts
    \/ UniversalDetectConflicts
    \/ DetectAdvancedConflicts
    \/ DetectHypotheticalConflicts
    \/ DetectEnhancedConflicts
    \/ Main

Spec == Init /\ [][Next]_vars

-----------------------------------------------------------------------------
(* The dependency-overlap checks on their own: two resolved descriptors    *)
(* with arbitrary dependency maps over a few names, handed to each check.  *)

MaxDepNames == 2

DepConstraints ==
    {Star, <<Clause("==", <<1, 20, 0>>)>>, <<Clause("==", <<2, 0, 0>>)>>}

DependencyMaps(names) == UNION {[d -> DepConstraints] : d \in SUBSET names}

Descriptors(name) ==
    {PackageInfo(name, <<2, 0, 0>>, deps, dev, None) :
        deps \in DependencyMaps(SharedDeps(MaxDepNames)),
        dev \in {None} \cup DependencyMaps(SharedDeps(1))}

InitDeps ==
    /\ pc = "resolved"
    /\ entry = "-"
    /\ package1 = [name |-> "torch", spec |-> <<>>]
    /\ package2 = [name |-> "tensorflow", spec |-> <<>>]
    /\ package_manager = "-"
    /\ enable_suggestions = "-"
    /\ use_pip_resolver = "-"
    /\ pkg1_info \in Descriptors("torch")
    /\ pkg2_info \in Descriptors("tensorflow")
    /\ pkg1_exists = "yes"
    /\ pkg2_exists = "yes"
    /\ suggestions = "-"
    /\ version_exists = "-"
    /\ pip_result = "-"
    /\ result = None
    /\ exit_code = -1
    /\ args = None

\* The check returns the set of dependency names it recorded a conflict for.
ReturnConflicts(e, conflicts) ==
    /\ pc' = "done"
    /\ entry' = e
    /\ result' = [conflicts |-> conflicts]
    /\ UNCHANGED <<package1, package2, package_manager, enable_suggestions,
                   use_pip_resolver, pkg1_info, pkg2_info, pkg1_exists,
                   pkg2_exists, suggestions, version_exists, pip_result, exit_code, args>>

\* PackageConflictDetector.check_dependency_conflicts(pkg1, pkg2)
CheckDependencyConflicts ==
    /\ pc = "resolved"
    /\ ReturnConflicts("check_dependency_conflicts",
                       check_dependency_conflicts(pkg1_info, pkg2_info))

\* UniversalPackageConflictDetector._check_dependency_conflicts(pkg1, pkg2)
UniversalCheckDependencyConflicts ==
    /\ pc = "resolved"
    /\ ReturnConflicts("_check_dependency_conflicts",
                       _check_dependency_conflicts(pkg1_info, pkg2_info))

NextDeps ==
    \/ CheckDependencyConflicts
    \/ UniversalCheckDependencyConflicts

SpecDeps == InitDeps /\ [][NextDeps]_vars

-----------------------------------------------------------------------------
(* Functions called on their own: the arguments are drawn in the initial   *)
(* state and one action applies the function.                              *)

\* The states before a function is called with arguments drawn from inputs.
FunctionInit(inputs) ==
    /\ pc = "call"
    /\ entry = "-"
    /\ args \in inputs
    /\ package1 = None
    /\ package2 = None
    /\ package_manager = "-"
    /\ enable_suggestions = "-"
    /\ use_pip_resolver = "-"
    /\ pkg1_info = NotConsulted
    /\ pkg2_info = NotConsulted
    /\ pkg1_exists = "-"
    /\ pkg2_exists = "-"
    /\ suggestions = "-"
    /\ version_exists = "-"
    /\ pip_result = "-"
    /\ result = None
    /\ exit_code = -1

\* Function e returns r.
FunctionReturn(e, r) ==
    /\ pc = "call"
    /\ pc' = "done"
    /\ entry' = e
    /\ result' = r
    /\ UNCHANGED <<args, package1, package2, package_manager, enable_suggestions,
                   use_pip_resolver, pkg1_info, pkg2_info, pkg1_exists,
                   pkg2_exists, suggestions, version_exists, pip_result, exit_code>>

\* Version strings of one to three numeric segments with values up to
\* MaxSegmentValue, and two with a fourth segment, which parse_version drops.
MaxSegmentValue == 1

VersionStrings ==
    UNION {[1..n -> 0..MaxSegmentValue] : n \in 1..3}
    \cup {<<1, 0, 0, 0>>, <<1, 0, 0, 1>>}

InitCompare ==
    FunctionInit([version1 : VersionStrings, version2 : VersionStrings,
                  version3 : VersionStrings])

\* compare_versions applied to each pair of the three versions.
CompareVersions ==
    FunctionReturn("compare_versions",
        [c11 |-> compare_versions(args.version1, args.version1),
         c12 |-> compare_versions(args.version1, args.version2),
         c21 |-> compare_versions(args.version2, args.version1),
         c23 |-> compare_versions(args.version2, args.version3),
         c13 |-> compare_versions(args.version1, args.version3)])

NextCompare == CompareVersions

SpecCompare == InitCompare /\ [][NextCompare]_vars

-----------------------------------------------------------------------------
(* core/version_resolver.py: check_version_satisfies_constraint as a pure  *)
(* function of a version and a one-clause constraint.                      *)

\* Final releases of one to three segments.
ReleaseStrings == UNION {[1..n -> 0..MaxSegmentValue] : n \in 1..3}

ResolverOps == {"~=", ">=", "<", "=="}

\* Faulty variant: the compatible release is cut at the next major version
\* only, whatever the number of segments written.
check_version_satisfies_constraint_major(version_str, constraint_str) ==
    \A i \in 1..Len(constraint_str) :
        IF constraint_str[i].op = "~="
        THEN /\ Len(constraint_str[i].ver) >= 2
             /\ ~TupleLess(Pad(version_str), Pad(constraint_str[i].ver))
             /\ version_str[1] = constraint_str[i].ver[1]
        ELSE ClauseHolds(version_str, constraint_str[i])

\* 'satisfies': ver in spec_set; False for an invalid constraint.
check_version_satisfies_constraint(version_str, constraint_str) ==
    VersionInSpecifierSet(version_str, constraint_str)

InitSatisfies ==
    FunctionInit([version_str : ReleaseStrings,
                  constraint_str : {<<Clause(op, ver)>> : op \in ResolverOps,
                                                          ver \in ReleaseStrings}])

CheckVersionSatisfiesConstraint ==
    FunctionReturn("check_version_satisfies_constraint",
        [satisfies |-> check_version_satisfies_constraint(args.version_str,
                                                          args.constraint_str)])

NextSatisfies == CheckVersionSatisfiesConstraint

SpecSatisfies == InitSatisfies /\ [][NextSatisfies]_vars

-----------------------------------------------------------------------------
(* core/version_resolver.py: check_constraints_compatibility over the      *)
(* whole list of test versions, pre-releases included.  A version here is  *)
(* a release with a pre-release tag ("" for a final release), and a clause *)
(* of a constraint carries the tag of its version too.                     *)

PreMajorMax == 4

PreMinorMax == 4

\* The tags in the order the list is extended with them.
PreTags == <<"rc1", "a1", "b1">>

Version(release, pre) == [release |-> release, pre |-> pre]

PreClause(op, ver, pre) == [op |-> op, ver |-> ver, pre |-> pre]

\* _generate_test_versions as the list it returns: the nested loops over
\* major, minor and patch, then for majors 1..PreMajorMax and minors
\* 0..PreMinorMax the three pre-releases of major.minor.0.
test_versions ==
    LET minors == GridMinorMax + 1
        patches == GridPatchMax + 1
        finals == [i \in 1..((GridMajorMax + 1) * minors * patches) |->
                      Version(<<(i - 1) \div (minors * patches),
                                ((i - 1) \div patches) % minors,
                                (i - 1) % patches>>, "")]
        pre == [i \in 1..(PreMajorMax * (PreMinorMax + 1) * Len(PreTags)) |->
                   Version(<<1 + (i - 1) \div ((PreMinorMax + 1) * Len(PreTags)),
                             ((i - 1) \div Len(PreTags)) % (PreMinorMax + 1),
                             0>>,
                           PreTags[((i - 1) % Len(PreTags)) + 1])]
    IN  finals \o pre

\* Order of the pre-release tags of one release: a1 < b1 < rc1 < final.
PreRank(pre) ==
    CASE pre = "a1"  -> 1
      [] pre = "b1"  -> 2
      [] pre = "rc1" -> 3
      [] OTHER       -> 4

\* packaging.version.Version.__lt__
VersionLess(v, w) ==
    \/ TupleLess(Pad(v.release), Pad(w.release))
    \/ Pad(v.release) = Pad(w.release) /\ PreRank(v.pre) < PreRank(w.pre)

\* Specifier.prereleases: an inclusive operator with a pre-release version.
SpecifierPrereleases(clause) ==
    clause.op \in {"==", ">=", "<=", "~="} /\ clause.pre # ""

\* Specifier.contains once pre-releases have been let through: the operator
\* applied to the version.  "<V" excludes the pre-releases of a final V;
\* "~=" is used here with final versions only.
SpecifierContains(item, clause) ==
    LET spec == Version(clause.ver, clause.pre)
    IN  CASE clause.op = ">=" -> ~VersionLess(item, spec)
          [] clause.op = "<=" -> ~VersionLess(spec, item)
          [] clause.op = ">"  -> VersionLess(spec, item)
          [] clause.op = "<"  -> /\ VersionLess(item, spec)
                                 /\ ~(/\ spec.pre = ""
                                       /\ item.pre # ""
                                       /\ Pad(item.release) = Pad(spec.release))
          [] clause.op = "==" -> Pad(item.release) = Pad(spec.release) /\ item.pre = spec.pre
          [] clause.op = "~=" -> /\ ~VersionLess(item, spec)
                                 /\ \A i \in 1..(Len(clause.ver) - 1) :
                                        Pad(item.release)[i] = clause.ver[i]
          [] OTHER            -> FALSE

\* SpecifierSet(constraint) raises InvalidSpecifier for a compatible release
\* of one segment.
InvalidSpecifier(constraint) ==
    \E i \in 1..Len(constraint) :
        constraint[i].op = "~=" /\ Len(constraint[i].ver) < 2

\* SpecifierSet.contains: a pre-release is refused unless a clause of the set
\* allows pre-releases; then every clause must contain the version.
SpecifierSetContains(item, spec_set) ==
    LET prereleases == \E i \in 1..Len(spec_set) : SpecifierPrereleases(spec_set[i])
    IN  IF item.pre # "" /\ ~prereleases THEN FALSE
        ELSE \A i \in 1..Len(spec_set) : SpecifierContains(item, spec_set[i])

\* The result check_constraints_compatibility returns for the list of
\* versions that were found to satisfy the constraints.
CompatibilityResult(compatible_versions) ==
    LET has_intersection == Len(compatible_versions) > 0
    IN  [compatible |-> has_intersection,
         common_versions |-> IF Len(compatible_versions) > 10
                             THEN SubSeq(compatible_versions, 1, 10)
                             ELSE compatible_versions,
         intersection_exists |-> has_intersection]

\* Faulty variant: a version that satisfies either constraint is kept.
check_constraints_compatibility_either(constraint1, constraint2) ==
    IF InvalidSpecifier(constraint1) \/ InvalidSpecifier(constraint2)
    THEN [compatible |-> FALSE, error |-> "Compatibility check error"]
    ELSE LET Either(ver) == \/ SpecifierSetContains(ver, constraint1)
                            \/ SpecifierSetContains(ver, constraint2)
         IN  CompatibilityResult(SelectSeq(test_versions, Either))

\* check_constraints_compatibility with its whole result.
check_constraints_compatibility_result(constraint1, constraint2) ==
    IF InvalidSpecifier(constraint1) \/ InvalidSpecifier(constraint2)
    THEN [compatible |-> FALSE, error |-> "Compatibility check error"]
    ELSE LET Both(ver) == /\ SpecifierSetContains(ver, constraint1)
                          /\ SpecifierSetContains(ver, constraint2)
         IN  CompatibilityResult(SelectSeq(test_versions, Both))

\* Constraints of at most one clause: versions inside, at the edge of and
\* beyond the list of test versions, final and pre-release.
GridClauses ==
    {PreClause(op, ver, "") :
        op \in {"==", ">=", "<=", ">", "<", "~="},
        ver \in {<<1>>, <<1, 0, 0>>,
                 <<GridMajorMax, GridMinorMax, GridPatchMax>>,
                 <<GridMajorMax, GridMinorMax + 1, 0>>}}
    \cup {PreClause(op, <<1, 0, 0>>, pre) :
             op \in {"==", ">=", "<=", ">", "<"}, pre \in {"rc1", "a1"}}

GridConstraints == {<<>>} \cup {<<clause>> : clause \in GridClauses}

InitGrid ==
    FunctionInit([constraint1 : GridConstraints, constraint2 : GridConstraints])

CheckConstraintsCompatibility ==
    FunctionReturn("check_constraints_compatibility",
        check_constraints_compatibility_result(args.constraint1, args.constraint2))

NextGrid == CheckConstraintsCompatibility

SpecGrid == InitGrid /\ [][NextGrid]_vars

-----------------------------------------------------------------------------
(* core/suggestions.py: PackageNameSuggester.calculate_similarity.  Words  *)
(* are sequences of characters; a similarity is an exact fraction          *)
(* [num, den], so that the weights 0.5, 0.3 and 0.2 are 5/10, 3/10, 2/10.  *)

MaxWordLen == 3

Alphabet == {"a", "b", "c"}

Words == UNION {[1..n -> Alphabet] : n \in 0..MaxWordLen}

Minimum(S) == CHOOSE x \in S : \A y \in S : x <= y

Maximum(S) == CHOOSE x \in S : \A y \in S : x >= y

\* a[i .. i+k) = b[j .. j+k) (offsets from 0, as in Python).
SameBlock(a, i, b, j, k) == \A d \in 0..(k - 1) : a[i + d + 1] = b[j + d + 1]

\* The total size of the matching blocks that difflib.SequenceMatcher finds in
\* a[alo:ahi] and b[blo:bhi] (no junk; autojunk needs 200 elements):
\* find_longest_match takes the longest common block, of those the one that
\* starts earliest in a, and of those the one that starts earliest in b;
\* get_matching_blocks then recurses on the pieces to its left and right.
RECURSIVE MatchingSize(_, _, _, _, _, _)
MatchingSize(a, alo, ahi, b, blo, bhi) ==
    LET Block(i, j, k) == /\ i + k <= ahi
                          /\ j + k <= bhi
                          /\ SameBlock(a, i, b, j, k)
        sizes == {k \in 1..Minimum({ahi - alo, bhi - blo}) :
                     \E i \in alo..(ahi - 1), j \in blo..(bhi - 1) : Block(i, j, k)}
    IN  IF sizes = {} THEN 0
        ELSE LET bestsize == Maximum(sizes)
                 besti == Minimum({i \in alo..(ahi - 1) :
                              \E j \in blo..(bhi - 1) : Block(i, j, bestsize)})
                 bestj == Minimum({j \in blo..(bhi - 1) : Block(besti, j, bestsize)})
             IN  bestsize
                 + MatchingSize(a, alo, besti, b, blo, bestj)
                 + MatchingSize(a, besti + bestsize, ahi, b, bestj + bestsize, bhi)

\* difflib.SequenceMatcher(None, a, b).ratio(): 2.0 * matches / length.
ratio(a, b) ==
    IF Len(a) + Len(b) = 0 THEN [num |-> 1, den |-> 1]
    ELSE [num |-> 2 * MatchingSize(a, 0, Len(a), b, 0, Len(b)),
          den |-> Len(a) + Len(b)]

\* _longest_common_substring: its length.
_longest_common_substring(str1, str2) ==
    Maximum({0} \cup {k \in 1..Minimum({Len(str1), Len(str2)}) :
                         \E i \in 0..(Len(str1) - k), j \in 0..(Len(str2) - k) :
                             SameBlock(str1, i, str2, j, k)})

\* collections.Counter
Counter(str, char) == Cardinality({i \in 1..Len(str) : str[i] = char})

RECURSIVE Factorial(_)
Factorial(n) == IF n <= 1 THEN 1 ELSE n * Factorial(n - 1)

\* _character_frequency_similarity: the mean over the characters of either
\* string of min_freq / max_freq.  Every max_freq divides Factorial(MaxWordLen)
\* (FrequencyScale), so the sum is exact over that denominator.
FrequencyScale == Factorial(MaxWordLen)

RECURSIVE similarity_sum(_, _, _)
similarity_sum(str1, str2, all_chars) ==
    IF all_chars = {} THEN 0
    ELSE LET char == CHOOSE c \in all_chars : TRUE
             freq1 == Counter(str1, char)
             freq2 == Counter(str2, char)
             max_freq == Maximum({freq1, freq2})
             min_freq == Minimum({freq1, freq2})
         IN  (min_freq * FrequencyScale) \div max_freq
             + similarity_sum(str1, str2, all_chars \ {char})

_character_frequency_similarity(str1, str2) ==
    LET all_chars == {str1[i] : i \in 1..Len(str1)} \cup {str2[i] : i \in 1..Len(str2)}
    IN  IF all_chars = {} THEN [num |-> 1, den |-> 1]
        ELSE [num |-> similarity_sum(str1, str2, all_chars),
              den |-> FrequencyScale * Cardinality(all_chars)]

\* calculate_similarity: 0.5, 0.3 and 0.2 of the three similarities.
calculate_similarity(word1, word2) ==
    LET seq_similarity == ratio(word1, word2)
        max_length == Maximum({Len(word1), Len(word2)})
        substring_similarity ==
            IF max_length > 0
            THEN [num |-> _longest_common_substring(word1, word2), den |-> max_length]
            ELSE [num |-> 0, den |-> 1]
        char_freq_similarity == _character_frequency_similarity(word1, word2)
    IN  [num |-> 5 * seq_similarity.num * substring_similarity.den
                       * char_freq_similarity.den
                 + 3 * substring_similarity.num * seq_similarity.den
                       * char_freq_similarity.den
                 + 2 * char_freq_similarity.num * seq_similarity.den
                       * substring_similarity.den,
         den |-> 10 * seq_similarity.den * substring_similarity.den
                    * char_freq_similarity.den]

InitSimilarity == FunctionInit([word1 : Words, word2 : Words])

\* calculate_similarity applied to the two words in both orders and to the
\* first word with itself.
CalculateSimilarity ==
    FunctionReturn("calculate_similarity",
        [s11 |-> calculate_similarity(args.word1, args.word1),
         s12 |-> calculate_similarity(args.word1, args.word2),
         s21 |-> calculate_similarity(args.word2, args.word1)])

NextSimilarity == CalculateSimilarity

SpecSimilarity == InitSimilarity /\ [][NextSimilarity]_vars

-----------------------------------------------------------------------------
(* core/suggestions.py: the version suggestions of check_version_exists.   *)
(* A version string is its sequence of numeric segments, each of one       *)
(* digit; "" is <<>>.                                                      *)

MaxAvailable == 9

Range(seq) == {seq[i] : i \in 1..Len(seq)}

\* seq[:n]
Take(seq, n) == IF Len(seq) > n THEN SubSeq(seq, 1, n) ELSE seq

\* The characters of a version string: its digits with dots between them.
VersionChars(version) ==
    [k \in 1..(IF version = <<>> THEN 0 ELSE 2 * Len(version) - 1) |->
        IF k % 2 = 1
        THEN <<"0", "1", "2", "3", "4", "5", "6", "7", "8", "9">>[version[(k + 1) \div 2] + 1]
        ELSE "."]

\* _parse_version_tuple: at most 4 segments, padded with zeros to 3; the
\* empty string gives (0, 0, 0).
_parse_version_tuple(version_str) ==
    IF Len(version_str) >= 4 THEN SubSeq(version_str, 1, 4)
    ELSE [i \in 1..3 |-> IF i <= Len(version_str) THEN version_str[i] ELSE 0]

\* The order of Python tuples.
LexLess(a, b) ==
    \E k \in 1..(Len(a) + 1) :
        /\ \A i \in 1..(k - 1) : i <= Len(b) /\ a[i] = b[i]
        /\ \/ k > Len(a) /\ k <= Len(b)
           \/ k <= Len(a) /\ k <= Len(b) /\ a[k] < b[k]

\* _get_recent_versions: the versions sorted by their tuples in descending
\* order (the sort is stable), the first 5 of them, and latest_version moved
\* or put to the front when it is an available version.
_get_recent_versions(available_versions, latest_version) ==
    LET n == Len(available_versions)
        key(i) == _parse_version_tuple(available_versions[i])
        Before(j, i) == \/ LexLess(key(i), key(j))
                        \/ key(i) = key(j) /\ j < i
        place(i) == Cardinality({j \in 1..n : Before(j, i)}) + 1
        version_tuples == [r \in 1..n |->
                              available_versions[CHOOSE i \in 1..n : place(i) = r]]
        recent_versions == Take(version_tuples, 5)
        Other(v) == v # latest_version
    IN  IF latest_version # <<>> /\ latest_version \in Range(available_versions)
        THEN Take(<<latest_version>> \o SelectSeq(recent_versions, Other), 5)
        ELSE recent_versions

\* The score _find_similar_versions gives a version, as a fraction: the
\* greater of the score of the segments (0.5 for the major, 0.3 more for the
\* minor, 0.2 or 0.1 more for a patch that is equal or within 5) and the
\* similarity of the two strings.
VersionSimilarity(target_version, version) ==
    LET target_tuple == _parse_version_tuple(target_version)
        version_tuple == _parse_version_tuple(version)
        patch_diff == IF target_tuple[3] >= version_tuple[3]
                      THEN target_tuple[3] - version_tuple[3]
                      ELSE version_tuple[3] - target_tuple[3]
        tenths == IF target_tuple[1] # version_tuple[1] THEN 0
                  ELSE IF target_tuple[2] # version_tuple[2] THEN 5
                  ELSE IF patch_diff = 0 THEN 10
                  ELSE IF patch_diff <= 5 THEN 9
                  ELSE 8
        string_sim == calculate_similarity(VersionChars(target_version),
                                           VersionChars(version))
    IN  IF tenths * string_sim.den >= string_sim.num * 10
        THEN [num |-> tenths, den |-> 10]
        ELSE string_sim

\* The (version, similarity) pairs of the available versions, in their order.
RECURSIVE ScoredVersions(_, _)
ScoredVersions(target_version, available_versions) ==
    IF available_versions = <<>> THEN <<>>
    ELSE <<[version |-> Head(available_versions),
            similarity |-> VersionSimilarity(target_version, Head(available_versions))]>>
         \o ScoredVersions(target_version, Tail(available_versions))

\* _find_similar_versions: the versions that score above 0.3, sorted by
\* score in descending order (the sort is stable), the first 5 of them.
_find_similar_versions(target_version, available_versions) ==
    LET Similar(pair) == pair.similarity.num * 10 > 3 * pair.similarity.den
        similarities == SelectSeq(ScoredVersions(target_version, available_versions),
                                  Similar)
        n == Len(similarities)
        Greater(x, y) == x.num * y.den > y.num * x.den
        Before(j, i) ==
            \/ Greater(similarities[j].similarity, similarities[i].similarity)
            \/ /\ ~Greater(similarities[i].similarity, similarities[j].similarity)
               /\ j < i
        place(i) == Cardinality({j \in 1..n : Before(j, i)}) + 1
    IN  Take([r \in 1..n |-> similarities[CHOOSE i \in 1..n : place(i) = r].version], 5)

\* The loop of _combine_version_suggestions over recent_versions.
RECURSIVE AddRecent(_, _)
AddRecent(suggested, recent_versions) ==
    IF recent_versions = <<>> THEN suggested
    ELSE LET v == Head(recent_versions)
             added == IF v \notin Range(suggested)
                      THEN Append(suggested, v) ELSE suggested
         IN  IF Len(added) >= 8 THEN added
             ELSE AddRecent(added, Tail(recent_versions))

\* Faulty variant: the recent versions are appended as they are.
_combine_version_suggestions_appended(similar_versions, recent_versions) ==
    Take(Take(similar_versions, 3) \o recent_versions, 8)

\* _combine_version_suggestions
_combine_version_suggestions(similar_versions, recent_versions) ==
    Take(AddRecent(Take(similar_versions, 3), recent_versions), 8)

\* check_version_exists, given what PyPI lists for the package.
check_version_exists(version, available_versions, latest_version) ==
    LET exists == version \in Range(available_versions)
        similar_versions == _find_similar_versions(version, available_versions)
        recent_versions == _get_recent_versions(available_versions, latest_version)
    IN  [exists |-> exists,
         suggested_versions |->
             IF ~exists /\ available_versions # <<>>
             THEN _combine_version_suggestions(similar_versions, recent_versions)
             ELSE <<>>,
         similar_versions |-> IF exists THEN <<>> ELSE similar_versions,
         recent_versions |-> IF exists THEN <<>> ELSE recent_versions]

\* Versions a package may have, all different as strings.
VersionPool ==
    <<<<1, 0, 0>>, <<1, 0, 1>>, <<1, 0>>, <<2, 1, 0>>, <<1, 0, 8>>, <<2, 1, 4>>,
      <<3, 0, 0>>, <<0, 9, 0>>, <<2, 1>>, <<1, 1, 0>>, <<2, 0, 0>>, <<1>>>>

\* Lists of distinct available versions, of up to MaxAvailable entries: runs
\* of the pool from its first, fourth or seventh entry on, in its order or
\* reversed.
AvailableLists ==
    LET run(o, n) == [i \in 1..n |-> VersionPool[((o + i - 1) % Len(VersionPool)) + 1]]
        reversed(seq) == [i \in 1..Len(seq) |-> seq[Len(seq) + 1 - i]]
    IN  {run(o, n) : o \in {0, 3, 6}, n \in 0..MaxAvailable}
        \cup {reversed(run(o, n)) : o \in {0, 3, 6}, n \in 0..MaxAvailable}

RequestedVersions == {<<1, 0, 9>>, <<7>>, <<1, 0, 1>>}

InitSuggest ==
    FunctionInit({[version |-> v, available_versions |-> av, latest_version |-> lv] :
                     v \in RequestedVersions, av \in AvailableLists,
                     lv \in {<<>>, <<1, 0>>}})

CheckVersionExists ==
    FunctionReturn("check_version_exists",
        check_version_exists(args.version, args.available_versions,
                             args.latest_version))

NextSuggest == CheckVersionExists

SpecSuggest == InitSuggest /\ [][NextSuggest]_vars

-----------------------------------------------------------------------------
(* parse_package_spec on the text of a specification: basic.py,            *)
(* universal_detector.py and utils/pip_resolver.py.  A specification is    *)
(* its sequence of characters.                                             *)

MaxClauses == 2

OperatorTexts ==
    {<<"=", "=">>, <<">", "=">>, <<"<", "=">>, <<">">>, <<"<">>}

\* A clause: an operator and a version of one digit.
ClauseTexts == {op \o <<d>> : op \in OperatorTexts, d \in {"1", "2"}}

\* The clause lists of n clauses, joined by commas.
RECURSIVE ClauseLists(_)
ClauseLists(n) ==
    IF n = 0 THEN {<<>>}
    ELSE IF n = 1 THEN ClauseTexts
    ELSE {rest \o <<",">> \o c : rest \in ClauseLists(n - 1), c \in ClauseTexts}

\* Specifications of the package a with up to MaxClauses clauses.
SpecTexts == {<<"a">> \o cs : cs \in UNION {ClauseLists(n) : n \in 0..MaxClauses}}

\* str.find: the first position at which sub occurs in text, 0 if none.
Find(text, sub) ==
    LET at == {i \in 1..(Len(text) - Len(sub) + 1) :
                  SubSeq(text, i, i + Len(sub) - 1) = sub}
    IN  IF at = {} THEN 0 ELSE Minimum(at)

\* text.split(op, 1) at the first operator of `operators`, in that order,
\* that occurs in the text: the name before it and the text after it, with
\* the operator put back in front unless it is in `dropped`.
RECURSIVE SplitAtFirstOf(_, _, _)
SplitAtFirstOf(package_spec, operators, dropped) ==
    IF operators = <<>> THEN [name |-> package_spec, version_spec |-> None]
    ELSE LET op == Head(operators)
             i == Find(package_spec, op)
             version == SubSeq(package_spec, i + Len(op), Len(package_spec))
         IN  IF i = 0 THEN SplitAtFirstOf(package_spec, Tail(operators), dropped)
             ELSE [name |-> SubSeq(package_spec, 1, i - 1),
                   version_spec |-> IF op \in dropped THEN version ELSE op \o version]

\* The parser named `parser` applied to the text.
ParsePackageSpecText(parser, package_spec) ==
    CASE parser = "parse_package_spec" ->
             \* basic.py: ==, >=, <=, >, <
             SplitAtFirstOf(package_spec,
                 <<<<"=", "=">>, <<">", "=">>, <<"<", "=">>, <<">">>, <<"<">>>>, {})
      [] parser = "_parse_package_spec" ->
             \* universal_detector.py: the same, with "==" left out of the result
             SplitAtFirstOf(package_spec,
                 <<<<"=", "=">>, <<">", "=">>, <<"<", "=">>, <<">">>, <<"<">>>>,
                 {<<"=", "=">>})
      [] OTHER ->
             \* pip_resolver.py: ~=, >=, <=, !=, ==, >, <
             SplitAtFirstOf(package_spec,
                 <<<<"~", "=">>, <<">", "=">>, <<"<", "=">>, <<"!", "=">>,
                   <<"=", "=">>, <<">">>, <<"<">>>>, {})

SpecParsers == {"parse_package_spec", "_parse_package_spec", "PipDependencyResolver._parse_package_spec"}

InitParse == FunctionInit([package_spec : SpecTexts])

ParsePackageSpec ==
    \E parser \in SpecParsers :
        FunctionReturn(parser, ParsePackageSpecText(parser, args.package_spec))

NextParse == ParsePackageSpec

SpecParse == InitParse /\ [][NextParse]_vars

-----------------------------------------------------------------------------
(* core/advanced_detector.py: check_transitive_dependency_conflicts as a   *)
(* function of two resolved descriptors.                                   *)

TableNames == {"numpy", "NumPy", "scipy", "pandas", "scikit-learn"}

\* Versions on both sides of the bounds the table lists.
TableVersions ==
    {<<1, 0, 0>>, <<1, 2, 0>>, <<1, 8, 0>>, <<1, 9, 0>>, <<1, 20, 0>>,
     <<1, 21, 0>>, <<1, 23, 0>>, <<2, 0, 0>>}

TableDescriptors ==
    {PackageInfo(name, version, EmptyMap, EmptyMap, EmptyMap) :
        name \in TableNames, version \in TableVersions}

InitTransitive ==
    FunctionInit([pkg1_info : TableDescriptors, pkg2_info : TableDescriptors])

CheckTransitiveDependencyConflicts ==
    FunctionReturn("check_transitive_dependency_conflicts",
        [conflicts |-> check_transitive_dependency_conflicts(args.pkg1_info,
                                                             args.pkg2_info)])

NextTransitive == CheckTransitiveDependencyConflicts

SpecTransitive == InitTransitive /\ [][NextTransitive]_vars

-----------------------------------------------------------------------------
(* core/requirements_analyzer.py: RequirementsCompatibilityAnalyzer, and   *)
(* compat-cli.py cmd_requirements                                          *)

\* The version constraints a requirement line may carry ("" is <<>>).
RequirementConstraints ==
    {<<>>, <<Clause(">", <<1, 0, 0>>)>>, <<Clause("<", <<1, 1, 0>>)>>,
     <<Clause("==", <<1, 0, 0>>)>>, <<Clause("==", <<1, 20, 0>>)>>,
     <<Clause(">=", <<1, 20, 0>>)>>}

\* A requirements file: missing, present but not readable as text, or a list
\* of requirement lines, here a map from the names it lists (in the order of
\* RequirementOrder) to their constraints.
RequirementsFiles(names) ==
    {[state |-> st, reqs |-> EmptyMap] : st \in {"missing", "unreadable"}}
    \cup {[state |-> "ok", reqs |-> r] :
              r \in UNION {[d -> RequirementConstraints] : d \in SUBSET names}}

RequirementOrder == <<"Torch", "torch", "numpy">>

\* parse_requirements_file: the requirement list, or the exception it raises
\* (FileNotFoundError is re-raised, any other exception becomes ValueError).
parse_requirements_file(file) ==
    CASE file.state = "missing"    -> Raised("FileNotFoundError")
      [] file.state = "unreadable" -> Raised("ValueError")
      [] OTHER -> [tag |-> "Requirements",
                   reqs |-> SelectSeq(RequirementOrder,
                                      LAMBDA n : n \in DOMAIN file.reqs)]

\* base_versions of _check_version_constraint_compatibility
base_versions ==
    {<<1, 0, 0>>, <<1, 1, 0>>, <<1, 2, 0>>, <<1, 3, 0>>, <<1, 4, 0>>,
     <<1, 5, 0>>, <<2, 0, 0>>, <<2, 1, 0>>, <<2, 2, 0>>, <<3, 0, 0>>}

\* Faulty variant: only the versions written in the constraints are tried.
_check_version_constraint_compatibility_written(constraint1, constraint2) ==
    \E version \in {constraint1[i].ver : i \in 1..Len(constraint1)}
                   \cup {constraint2[i].ver : i \in 1..Len(constraint2)} :
        /\ VersionInSpecifierSet(version, constraint1)
        /\ VersionInSpecifierSet(version, constraint2)

\* _check_version_constraint_compatibility: some version among those written
\* in the two constraints and the base versions satisfies both.
_check_version_constraint_compatibility(constraint1, constraint2) ==
    \E version \in {constraint1[i].ver : i \in 1..Len(constraint1)}
                   \cup {constraint2[i].ver : i \in 1..Len(constraint2)}
                   \cup base_versions :
        /\ VersionInSpecifierSet(version, constraint1)
        /\ VersionInSpecifierSet(version, constraint2)

\* The pairs that _check_cross_dependencies hands to the detector: the first
\* min(5, len(reqs1), len(reqs2)) lines of each file, names differing.
CrossPairs(reqs1, reqs2) ==
    LET Min(a, b) == IF a < b THEN a ELSE b
        sample_size == Min(5, Min(Len(reqs1), Len(reqs2)))
    IN  {<<reqs1[i], reqs2[j]>> : i \in 1..sample_size, j \in 1..sample_size}

\* The pair can get DEPENDENCY_CONFLICT from detect_hypothetical_conflicts for
\* some answer of PyPI.
CanDependencyConflict(file1, file2, pair) ==
    /\ lower(pair[1]) # lower(pair[2])
    /\ LET p1 == [name |-> pair[1], spec |-> file1.reqs[pair[1]]]
           p2 == [name |-> pair[2], spec |-> file2.reqs[pair[2]]]
       IN  \E a1 \in get_hypothetical_package_info(p1.name,
                          parse_package_spec(p1).version_spec),
              a2 \in get_hypothetical_package_info(p2.name,
                          parse_package_spec(p2).version_spec) :
               detect_hypothetical_conflicts(p1, p2, a1.info, a2.info, "no", "-"
                   ).conflict_type = "DEPENDENCY_CONFLICT"

\* analyze_compatibility on two readable files; dependency_conflicts is what
\* _check_cross_dependencies found.
RequirementsAnalysisResult(file1, file2, dependency_conflicts) ==
    LET packages1 == {lower(n) : n \in DOMAIN file1.reqs}
        packages2 == {lower(n) : n \in DOMAIN file2.reqs}
        spec1(p) == file1.reqs[CHOOSE n \in DOMAIN file1.reqs : lower(n) = p]
        spec2(p) == file2.reqs[CHOOSE n \in DOMAIN file2.reqs : lower(n) = p]
        mismatch(p) == /\ spec1(p) # <<>>
                       /\ spec2(p) # <<>>
                       /\ spec1(p) # spec2(p)
                       /\ ~_check_version_constraint_compatibility(spec1(p), spec2(p))
        common_packages == packages1 \cap packages2
    IN  [tag |-> "RequirementsAnalysisResult",
         total_packages |-> Cardinality(packages1 \cup packages2),
         conflicts |-> {p \in common_packages : mismatch(p)},
         version_mismatches |-> {p \in common_packages : mismatch(p)},
         compatible_packages |-> {p \in common_packages : ~mismatch(p)},
         file1_only |-> packages1 \ packages2,
         file2_only |-> packages2 \ packages1,
         dependency_conflicts |-> dependency_conflicts]

InitRequirements ==
    FunctionInit([file1 : RequirementsFiles({"Torch", "numpy"}),
                  file2 : RequirementsFiles({"torch", "numpy"})])

\* analyze_compatibility(file1_path, file2_path): file1 is parsed first, and
\* an exception of either parse ends the analysis.
AnalyzeCompatibility ==
    LET reqs1 == parse_requirements_file(args.file1)
        reqs2 == parse_requirements_file(args.file2)
    IN  IF reqs1.tag = "Raised" THEN FunctionReturn("analyze_compatibility", reqs1)
        ELSE IF reqs2.tag = "Raised" THEN FunctionReturn("analyze_compatibility", reqs2)
        ELSE \E dependency_conflicts \in
                    SUBSET {pair \in CrossPairs(reqs1.reqs, reqs2.reqs) :
                               CanDependencyConflict(args.file1, args.file2, pair)} :
                 FunctionReturn("analyze_compatibility",
                     RequirementsAnalysisResult(args.file1, args.file2,
                                                dependency_conflicts))

\* Faulty variant: every failed analysis is reported as a dependency conflict.
cmd_requirements_any_failure(analysis) ==
    IF analysis.tag = "Raised"
    THEN ConflictResult("DEPENDENCY_CONFLICT", "Analysis failed", "high", {}, 0)
    ELSE IF analysis.conflicts # {}
    THEN ConflictResult("DEPENDENCY_CONFLICT", "Found compatibility issues", "high",
                        {}, Cardinality(analysis.conflicts))
    ELSE ConflictResult("NO_CONFLICT", "Requirements files are compatible", "low",
                        {}, 0)

\* cmd_requirements: the verdict the command returns for what
\* analyze_compatibility returned or raised.
cmd_requirements(analysis) ==
    IF analysis = Raised("FileNotFoundError")
    THEN ConflictResult("PACKAGE_NOT_FOUND", "File not found", "high", {}, 0)
    ELSE IF analysis.tag = "Raised"
    THEN ConflictResult("DEPENDENCY_CONFLICT", "Analysis failed", "high", {}, 0)
    ELSE IF analysis.conflicts # {}
    THEN ConflictResult("DEPENDENCY_CONFLICT", "Found compatibility issues", "high",
                        {}, Cardinality(analysis.conflicts))
    ELSE ConflictResult("NO_CONFLICT", "Requirements files are compatible", "low",
                        {}, 0)

\* The requirements command, once the analysis has returned or raised: the
\* verdict is kept together with the analysis it was derived from.
CmdRequirements ==
    /\ pc = "done"
    /\ entry = "analyze_compatibility"
    /\ pc' = "reported"
    /\ entry' = "cmd_requirements"
    /\ result' = [analysis |-> result, verdict |-> cmd_requirements(result)]
    /\ UNCHANGED <<args, package1, package2, package_manager, enable_suggestions,
                   use_pip_resolver, pkg1_info, pkg2_info, pkg1_exists,
                   pkg2_exists, suggestions, version_exists, pip_result, exit_code>>

NextRequirements ==
    \/ AnalyzeCompatibility
    \/ CmdRequirements

SpecRequirements == InitRequirements /\ [][NextRequirements]_vars

-----------------------------------------------------------------------------
(* core/requirements_analyzer.py: _check_cross_dependencies as a function  *)
(* of two requirement lists, with the calls of the detector it makes.      *)

MaxRequirements == 6

\* The names requirement lists are filled with, in turn.
RequirementNames ==
    <<"Torch", "numpy", "scipy", "tensorflow", "torch", "NumPy", "pandas">>

\* Requirement lists of up to MaxRequirements lines (their names; a name may
\* come back in another spelling).
RequirementLists ==
    {[i \in 1..n |-> RequirementNames[((i - 1 + o) % Len(RequirementNames)) + 1]] :
        n \in 0..MaxRequirements, o \in 0..2}

\* What detect_hypothetical_conflicts answers to the calls of one run.
DetectorAnswers == {"NO_CONFLICT", "DEPENDENCY_CONFLICT", "VERSION_CONFLICT", "raises"}

\* Faulty variant: the lists are cut to the shorter length, with no cap of 5.
_check_cross_dependencies_uncapped(reqs1, reqs2, answer) ==
    LET sample_size == Minimum({Len(reqs1), Len(reqs2)})
        pairs == [k \in 1..(sample_size * sample_size) |->
                     <<((k - 1) \div sample_size) + 1, ((k - 1) % sample_size) + 1>>]
        Differ(pair) == lower(reqs1[pair[1]]) # lower(reqs2[pair[2]])
        calls == SelectSeq(pairs, Differ)
    IN  [calls |-> calls,
         dependency_conflicts |-> IF answer = "DEPENDENCY_CONFLICT" THEN calls ELSE <<>>]

\* _check_cross_dependencies: the pairs (i, j) of lines, in the order of the
\* two loops, for which the detector is called, and the conflicts recorded.
_check_cross_dependencies(reqs1, reqs2, answer) ==
    LET sample_size == Minimum({5, Len(reqs1), Len(reqs2)})
        pairs == [k \in 1..(sample_size * sample_size) |->
                     <<((k - 1) \div sample_size) + 1, ((k - 1) % sample_size) + 1>>]
        Differ(pair) == lower(reqs1[pair[1]]) # lower(reqs2[pair[2]])
        calls == SelectSeq(pairs, Differ)
    IN  [calls |-> calls,
         dependency_conflicts |-> IF answer = "DEPENDENCY_CONFLICT" THEN calls ELSE <<>>]

InitCross == FunctionInit([reqs1 : RequirementLists, reqs2 : RequirementLists])

CheckCrossDependencies ==
    \E answer \in DetectorAnswers :
        FunctionReturn("_check_cross_dependencies",
                       _check_cross_dependencies(args.reqs1, args.reqs2, answer))

NextCross == CheckCrossDependencies

SpecCross == InitCross /\ [][NextCross]_vars

-----------------------------------------------------------------------------
(* core/requirements_analyzer.py: analyze_compatibility as a function of   *)
(* the two parsed requirement lists, with the lists it builds.             *)

MaxLines == 2

\* The requirement lists of up to MaxLines lines over the given names and
\* version constraints; a line is a RequirementSpec.
RECURSIVE LinesOf(_, _, _)
LinesOf(names, constraints, n) ==
    IF n = 0 THEN {<<>>}
    ELSE LET shorter == LinesOf(names, constraints, n - 1)
         IN  shorter \cup
             {Append(reqs, [name |-> name, version_spec |-> c]) :
                 reqs \in shorter, name \in names, c \in constraints}

\* {req.name.lower(): req for req in reqs}: a later line replaces an earlier
\* one of the same lowercase name.
PackageDict(reqs) ==
    [k \in {lower(reqs[i].name) : i \in 1..Len(reqs)} |->
        reqs[Maximum({i \in 1..Len(reqs) : lower(reqs[i].name) = k})]]

\* The orders in which a set can be iterated.
Orders(S) ==
    {order \in [1..Cardinality(S) -> S] :
        \A i, j \in 1..Cardinality(S) : order[i] = order[j] => i = j}

\* The loop of analyze_compatibility over the common packages, in the order
\* the set is iterated: what it appends to conflicts, version_mismatches and
\* compatible_packages.
RECURSIVE AnalyzeCommon(_, _, _, _)
AnalyzeCommon(order, packages1, packages2, lists) ==
    IF order = <<>> THEN lists
    ELSE LET package_name == Head(order)
             req1 == packages1[package_name]
             req2 == packages2[package_name]
             mismatch ==
                 /\ req1.version_spec # <<>>
                 /\ req2.version_spec # <<>>
                 /\ req1.version_spec # req2.version_spec
                 /\ ~_check_version_constraint_compatibility(req1.version_spec,
                                                             req2.version_spec)
         IN  AnalyzeCommon(Tail(order), packages1, packages2,
                 [conflicts |->
                      IF mismatch
                      THEN Append(lists.conflicts,
                                  [conflict_type |-> "VERSION_CONFLICT",
                                   package |-> package_name, severity |-> "high"])
                      ELSE lists.conflicts,
                  version_mismatches |->
                      IF mismatch
                      THEN Append(lists.version_mismatches,
                                  [package |-> package_name,
                                   file1_spec |-> req1.version_spec,
                                   file2_spec |-> req2.version_spec])
                      ELSE lists.version_mismatches,
                  compatible_packages |->
                      IF mismatch THEN lists.compatible_packages
                      ELSE Append(lists.compatible_packages, package_name)])

\* Faulty variant: the packages are counted by their names as written.
analyze_compatibility_cased(reqs1, reqs2, order, answer) ==
    LET packages1 == PackageDict(reqs1)
        packages2 == PackageDict(reqs2)
        all_packages == {reqs1[i].name : i \in 1..Len(reqs1)}
                        \cup {reqs2[i].name : i \in 1..Len(reqs2)}
        lists == AnalyzeCommon(order, packages1, packages2,
                     [conflicts |-> <<>>, version_mismatches |-> <<>>,
                      compatible_packages |-> <<>>])
    IN  [total_packages |-> Cardinality(all_packages),
         unique_packages |-> Cardinality(all_packages),
         conflicts |-> lists.conflicts,
         compatible_packages |-> lists.compatible_packages,
         file1_only |-> DOMAIN packages1 \ DOMAIN packages2,
         file2_only |-> DOMAIN packages2 \ DOMAIN packages1,
         version_mismatches |-> lists.version_mismatches,
         dependency_conflicts |->
             _check_cross_dependencies([i \in 1..Len(reqs1) |-> reqs1[i].name],
                                       [i \in 1..Len(reqs2) |-> reqs2[i].name],
                                       answer).dependency_conflicts]

\* analyze_compatibility on the two parsed lists; `order` is the order in
\* which common_packages is iterated, `answer` the detector's answer to the
\* calls of _check_cross_dependencies.
analyze_compatibility(reqs1, reqs2, order, answer) ==
    LET packages1 == PackageDict(reqs1)
        packages2 == PackageDict(reqs2)
        all_packages == DOMAIN packages1 \cup DOMAIN packages2
        lists == AnalyzeCommon(order, packages1, packages2,
                     [conflicts |-> <<>>, version_mismatches |-> <<>>,
                      compatible_packages |-> <<>>])
    IN  [total_packages |-> Cardinality(all_packages),
         unique_packages |-> Cardinality(all_packages),
         conflicts |-> lists.conflicts,
         compatible_packages |-> lists.compatible_packages,
         file1_only |-> DOMAIN packages1 \ DOMAIN packages2,
         file2_only |-> DOMAIN packages2 \ DOMAIN packages1,
         version_mismatches |-> lists.version_mismatches,
         dependency_conflicts |->
             _check_cross_dependencies([i \in 1..Len(reqs1) |-> reqs1[i].name],
                                       [i \in 1..Len(reqs2) |-> reqs2[i].name],
                                       answer).dependency_conflicts]

InitAnalyze ==
    FunctionInit([reqs1 : LinesOf({"Torch", "torch", "numpy"},
                                  {<<>>, <<Clause("==", <<2, 0, 0>>)>>}, MaxLines),
                  reqs2 : LinesOf({"torch", "numpy"},
                                  {<<>>, <<Clause("==", <<1, 0, 0>>)>>}, MaxLines)])

AnalyzeParsedLists ==
    \E order \in Orders(DOMAIN PackageDict(args.reqs1) \cap DOMAIN PackageDict(args.reqs2)),
       answer \in {"NO_CONFLICT", "DEPENDENCY_CONFLICT"} :
        FunctionReturn("analyze_compatibility",
                       analyze_compatibility(args.reqs1, args.reqs2, order, answer))

NextAnalyze == AnalyzeParsedLists

SpecAnalyze == InitAnalyze /\ [][NextAnalyze]_vars

-----------------------------------------------------------------------------
(* Properties.  A state with pc = "done" is a finished call; the notions   *)
(* the properties are stated in are those of the specification, not the    *)
(* detectors' own helpers: a version satisfies a constraint in the PEP 440 *)
(* sense, and the constraints compared are those the caller wrote.         *)

Done == pc = "done"

SameSpecName == SameName(package1.name, package2.name)

BothResolved == Found(pkg1_info) /\ Found(pkg2_info)

\* The resolved version satisfies the constraint the caller wrote.
Satisfies(info, package) ==
    package.spec = <<>> \/ VersionInSpecifierSet(info.version, package.spec)

\* The first requested constraint that the resolved version does not satisfy.
Unsatisfied ==
    IF ~Satisfies(pkg1_info, package1) THEN package1.spec
    ELSE IF ~Satisfies(pkg2_info, package2) THEN package2.spec
    ELSE <<>>

\* C1: in detect_conflicts for two differently-named specs the verdict is that
\* of the first matching stage in the order NotFound, constraint mismatch,
\* dependency overlap, peer dependency, NoConflict; whenever either package is
\* absent the verdict is NotFound, even if the other package's resolved
\* version does not satisfy its own constraint.
C1_StageOrder ==
    (/\ Done
     /\ entry \in {"detect_conflicts", "universal_detect_conflicts"}
     /\ ~SameSpecName
     /\ pkg1_info # NotConsulted)
    => IF pkg1_info = None \/ pkg2_info = None
       THEN result.conflict_type = "PACKAGE_NOT_FOUND"
       ELSE IF Unsatisfied # <<>>
       THEN result.conflict_type = "VERSION_CONFLICT"
       ELSE result.conflict_type \in
                {"DEPENDENCY_CONFLICT", "PEER_DEPENDENCY_CONFLICT", "NO_CONFLICT"}

\* C2: two specs naming the same package (case-insensitively) with identical
\* explicit constraints get NoConflict from every entry point, whatever the
\* lookups, the pip simulation or the constraint-intersection check answer.
C2_IdenticalConstraintsNoConflict ==
    (/\ Done
     /\ entry \in {"detect_conflicts", "universal_detect_conflicts",
                   "detect_hypothetical_conflicts", "detect_enhanced_conflicts"}
     /\ SameSpecName
     /\ package1.spec # <<>>
     /\ package1.spec = package2.spec)
    => result.conflict_type = "NO_CONFLICT"

\* C3, as stated: two specs naming the same package, both with explicit
\* constraints whose strings differ, get VersionConflict with severity high,
\* and the registry is not consulted.
C3_DifferingConstraints ==
    (/\ Done
     /\ SameSpecName
     /\ package1.spec # <<>>
     /\ package2.spec # <<>>
     /\ package1.spec # package2.spec)
    => /\ result.conflict_type = "VERSION_CONFLICT"
       /\ result.severity = "high"
       /\ pkg1_info = NotConsulted
       /\ pkg2_info = NotConsulted

\* C3, amended: the same, provided the universal detector is called with a
\* package manager it has an adapter for.
C3_DifferingConstraintsSupported ==
    (/\ Done
     /\ SameSpecName
     /\ package1.spec # <<>>
     /\ package2.spec # <<>>
     /\ package1.spec # package2.spec
     /\ entry = "universal_detect_conflicts" => package_manager \in adapters)
    => /\ result.conflict_type = "VERSION_CONFLICT"
       /\ result.severity = "high"
       /\ pkg1_info = NotConsulted
       /\ pkg2_info = NotConsulted

C3_Witness ==
    /\ Done
    /\ entry = "universal_detect_conflicts"
    /\ package_manager = "npm"
    /\ package1.name = "Torch"
    /\ package2.name = "torch"
    /\ package1.spec = <<Clause("==", <<2, 0, 0>>)>>
    /\ package2.spec = <<Clause(">=", <<2, 0, 0>>)>>
    /\ result.conflict_type = "VERSION_CONFLICT"

C5_AbsentPackageNotFound ==
    (/\ Done
     /\ entry = "detect_hypothetical_conflicts"
     /\ ~SameSpecName
     /\ (pkg1_info = None \/ pkg2_info = None))
    => LET exists == IF pkg1_info = None THEN pkg1_exists ELSE pkg2_exists
       IN  /\ exists = "no" => result.conflict_type = "PACKAGE_NOT_FOUND"
           /\ result.message = "Version not found on PyPI" => exists = "yes"

C7_DependencySeverityThreshold ==
    (/\ Done
     /\ result.conflict_type = "DEPENDENCY_CONFLICT"
     /\ result.details \cap {"conflicts", "dependency_conflicts"} # {})
    => result.severity = IF result.n > 3 THEN "high" ELSE "medium"

\* C7, amended: the threshold governs the dependency-overlap stage of the two
\* detect_conflicts pipelines; the direct-dependency stage of
\* detect_hypothetical_conflicts (which records at most two violations)
\* always returns severity high.
C7_DependencySeverityByStage ==
    (/\ Done
     /\ result.conflict_type = "DEPENDENCY_CONFLICT")
    => /\ "conflicts" \in result.details
          => result.severity = IF result.n > 3 THEN "high" ELSE "medium"
       /\ "dependency_conflicts" \in result.details
          => result.severity = "high" /\ result.n <= 2

C7_Witness ==
    /\ Done
    /\ entry = "universal_detect_conflicts"
    /\ "conflicts" \in result.details
    /\ result.n = 3
    /\ result.severity = "medium"

\* C8: for two resolved descriptors the dependency-overlap check records a
\* conflict for exactly the names present in both dependency maps whose two
\* constraints are neither identical nor proven compatible (one of them "*").
C8_OverlapConflictsExact ==
    Done
    => LET universal == entry = "_check_dependency_conflicts"
           deps1 == IF universal
                    THEN Merge(pkg1_info.dependencies, pkg1_info.dev_dependencies)
                    ELSE pkg1_info.dependencies
           deps2 == IF universal
                    THEN Merge(pkg2_info.dependencies, pkg2_info.dev_dependencies)
                    ELSE pkg2_info.dependencies
       IN  result.conflicts =
               {d \in DOMAIN deps1 \cap DOMAIN deps2 :
                   /\ deps1[d] # deps2[d]
                   /\ deps1[d] # Star
                   /\ deps2[d] # Star}

CudaMismatch == check_system_level_conflicts(pkg1_info, pkg2_info) # {}

KnownIncompatible == check_transitive_dependency_conflicts(pkg1_info, pkg2_info) # {}

C11_NoConflictEvidence ==
    (/\ Done
     /\ ~SameSpecName
     /\ result.conflict_type = "NO_CONFLICT")
    => /\ result.severity = "low"
       /\ {"pkg1", "pkg2"} \subseteq result.details
       /\ BothResolved

\* The verdict of the hypothetical detection that detect_enhanced_conflicts
\* starts from, recomputed from the inputs and the answers of the call.
UnderlyingResult ==
    detect_hypothetical_conflicts(package1, package2, pkg1_info, pkg2_info,
                                  enable_suggestions, suggestions)

\* The order of the severity scale; a label outside the scale ranks lowest.
SeverityRank(severity) ==
    CASE severity = "info"     -> 1
      [] severity = "low"      -> 2
      [] severity = "medium"   -> 3
      [] severity = "high"     -> 4
      [] severity = "critical" -> 5
      [] OTHER                 -> 0

\* C12: detect_enhanced_conflicts never downgrades a conflict found by the
\* underlying hypothetical detection: when that returns a verdict other than
\* NoConflict, the enhanced verdict is not NoConflict either and its severity
\* is not lower, whatever the pip simulation and the intersection check answer.
C12_NeverDowngrade ==
    (/\ Done
     /\ entry = "detect_enhanced_conflicts"
     /\ UnderlyingResult.conflict_type # "NO_CONFLICT")
    => /\ result.conflict_type # "NO_CONFLICT"
       /\ \/ result.severity = UnderlyingResult.severity
          \/ SeverityRank(result.severity) > SeverityRank(UnderlyingResult.severity)

\* C13: a timeout or transport failure of the pip install simulation leaves
\* that step inconclusive: for two differently-named specs (where the
\* constraint-intersection check has nothing to compare) it never turns a
\* NoConflict verdict of the earlier stages into a conflict verdict.
C13_PipFailureInconclusive ==
    (/\ Done
     /\ entry = "detect_enhanced_conflicts"
     /\ ~SameSpecName
     /\ pip_result = "timeout"
     /\ UnderlyingResult.conflict_type = "NO_CONFLICT")
    => result.conflict_type = "NO_CONFLICT"

\* C14: a detection call always returns a verdict and never raises to its
\* caller, whatever a registry lookup does (package absent, lookup tool
\* missing, transport error, timeout).
C14_NeverRaises ==
    pc # "idle" => /\ pc = "done"
                   /\ result.conflict_type \in ConflictType

C16_ExitCode ==
    pc = "exited"
    => IF result = Raised("FileNotFoundError") THEN exit_code = 1
       ELSE /\ exit_code = 0 <=> result.conflict_type = "NO_CONFLICT"
            /\ exit_code = 2 <=> /\ result.conflict_type # "NO_CONFLICT"
                                 /\ result.severity \in {"high", "critical"}
            /\ exit_code \in {0, 1, 2}

C16_Witness ==
    /\ pc = "exited"
    /\ entry = "detect_enhanced_conflicts"
    /\ result.conflict_type = "DEPENDENCY_CONFLICT"
    /\ result.severity = "medium"
    /\ exit_code = 1

\* C17: compare_versions is a consistent order on parseable version strings:
\* compare_versions(v, v) = 0, compare_versions(a, b) = -compare_versions(b, a),
\* and compare_versions(a, b) <= 0 and compare_versions(b, c) <= 0 imply
\* compare_versions(a, c) <= 0.
C17_ConsistentOrder ==
    (/\ Done
     /\ entry = "compare_versions"
     /\ Parseable(args.version1)
     /\ Parseable(args.version2)
     /\ Parseable(args.version3))
    => /\ result.c11 = 0
       /\ result.c12 = -result.c21
       /\ (result.c12 <= 0 /\ result.c23 <= 0) => result.c13 <= 0

C17_Witness ==
    /\ Done
    /\ entry = "compare_versions"
    /\ args.version1 = <<0, 1>>
    /\ args.version2 = <<1, 0, 0>>
    /\ args.version3 = <<1, 0, 1>>
    /\ result.c12 = -1
    /\ result.c23 = -1
    /\ result.c13 = -1

\* What analyze_compatibility returned or raised in a state of the
\* requirements analysis.
Analyzed == pc \in {"done", "reported"} /\ entry \in {"analyze_compatibility", "cmd_requirements"}

Analysis == IF pc = "reported" THEN result.analysis ELSE result

\* C18, as stated: if either requirements file does not exist,
\* analyze_compatibility fails with a file-not-found error without producing
\* a partial analysis result, and the requirements command reports this as a
\* NotFound verdict.
C18_MissingFileNotFound ==
    (/\ Analyzed
     /\ "missing" \in {args.file1.state, args.file2.state})
    => /\ Analysis = Raised("FileNotFoundError")
       /\ pc = "reported" => result.verdict.conflict_type = "PACKAGE_NOT_FOUND"

\* C18, amended: the files are parsed in order and the first failure ends the
\* analysis without a partial result.  If the first file does not exist, or it
\* can be read and the second does not exist, the failure is a file-not-found
\* error and the command's verdict is NotFound; if the first file exists but
\* cannot be read, the failure is a ValueError and the command's verdict is
\* DependencyConflict, whether or not the second file exists.
C18_FirstFailureReported ==
    (/\ Analyzed
     /\ "missing" \in {args.file1.state, args.file2.state})
    => /\ Analysis = Raised(IF args.file1.state = "unreadable"
                             THEN "ValueError" ELSE "FileNotFoundError")
       /\ pc = "reported"
              => /\ result.verdict.severity = "high"
                 /\ result.verdict.conflict_type =
                        IF args.file1.state = "unreadable"
                        THEN "DEPENDENCY_CONFLICT" ELSE "PACKAGE_NOT_FOUND"

C18_Witness ==
    /\ pc = "reported"
    /\ args.file1.state = "ok"
    /\ DOMAIN args.file1.reqs = {"Torch", "numpy"}
    /\ args.file2.state = "missing"
    /\ result.analysis = Raised("FileNotFoundError")
    /\ result.verdict.conflict_type = "PACKAGE_NOT_FOUND"

\* C19: in analyze_compatibility a name present in both files (compared in
\* lowercase) is reported compatible when its two constraint strings are
\* identical or either is empty; otherwise it is reported as a version
\* mismatch exactly when the candidate-grid probe of
\* check_constraints_compatibility finds no version satisfying both.
C19_MismatchIffNoIntersection ==
    (/\ Analyzed
     /\ Analysis.tag = "RequirementsAnalysisResult")
    => \A n1 \in DOMAIN args.file1.reqs, n2 \in DOMAIN args.file2.reqs :
           lower(n1) = lower(n2)
           => LET c1 == args.file1.reqs[n1]
                  c2 == args.file2.reqs[n2]
                  mismatch == /\ c1 # <<>>
                              /\ c2 # <<>>
                              /\ c1 # c2
                              /\ ~check_constraints_compatibility(c1, c2)
              IN  /\ lower(n1) \in Analysis.version_mismatches <=> mismatch
                  /\ lower(n1) \in Analysis.compatible_packages <=> ~mismatch

\* Two fractions denote the same number.
SameFraction(x, y) == x.num * y.den = y.num * x.den

\* C20: calculate_similarity(s, s) = 1.0 for every non-empty string s, and
\* calculate_similarity(a, b) = calculate_similarity(b, a) for all strings.
C20_SimilarityReflexiveSymmetric ==
    (Done /\ entry = "calculate_similarity")
    => /\ args.word1 # <<>> => SameFraction(result.s11, [num |-> 1, den |-> 1])
       /\ SameFraction(result.s12, result.s21)

\* C21: parse_version pads a version that begins with a digit to three
\* segments, so compare_versions orders any two such versions by their padded
\* tuples; in particular a one-segment version compares below a greater one.
C21_OneSegmentVersionPadded ==
    (Done /\ entry = "compare_versions")
    => result.c12 = (IF TupleLess(Pad(args.version1), Pad(args.version2)) THEN -1
                     ELSE IF TupleLess(Pad(args.version2), Pad(args.version1)) THEN 1
                     ELSE 0)

\* The version that follows X.Y in the minor segment: X.(Y+1).
NextMinor(ver) == <<ver[1], ver[2] + 1, 0>>

NextMajor(ver) == <<ver[1] + 1, 0, 0>>

CandidateGrid ==
    {Version(<<major, minor, patch>>, "") :
        major \in 0..9, minor \in 0..19, patch \in 0..9}
    \cup {Version(<<major, minor, 0>>, pre) :
             major \in 1..4, minor \in 0..4, pre \in {"rc1", "a1", "b1"}}

\* A version satisfies a constraint under the Constraint Resolver.
SatisfiesConstraint(ver, constraint) ==
    ~InvalidSpecifier(constraint) /\ SpecifierSetContains(ver, constraint)

\* C23: check_constraints_compatibility(A, B) reports compatible = true if and
\* only if at least one version of the candidate grid satisfies both A and B.
C23_CompatibleIffGridVersion ==
    (Done /\ entry = "check_constraints_compatibility")
    => (result.compatible
        <=> \E ver \in CandidateGrid :
               /\ SatisfiesConstraint(ver, args.constraint1)
               /\ SatisfiesConstraint(ver, args.constraint2))

\* A pair of constraints that only a pre-release of the grid satisfies.
C23_Witness ==
    /\ Done
    /\ entry = "check_constraints_compatibility"
    /\ args.constraint1 = <<PreClause("==", <<1, 0, 0>>, "rc1")>>
    /\ args.constraint2 = <<PreClause(">=", <<1, 0, 0>>, "a1")>>
    /\ result.compatible
    /\ result.common_versions = <<Version(<<1, 0, 0>>, "rc1")>>

\* C24: _check_cross_dependencies examines only the first
\* min(5, |list1|, |list2|) entries of each list: it calls the classifier at
\* most 25 times, only on pairs of the two samples, and never on a pair whose
\* names are equal in lowercase.
C24_CrossSampleBounded ==
    (Done /\ entry = "_check_cross_dependencies")
    => LET sample == Minimum({5, Len(args.reqs1), Len(args.reqs2)})
       IN  /\ Len(result.calls) <= 25
           /\ \A k \in 1..Len(result.calls) :
                  /\ result.calls[k][1] \in 1..sample
                  /\ result.calls[k][2] \in 1..sample
                  /\ lower(args.reqs1[result.calls[k][1]])
                         # lower(args.reqs2[result.calls[k][2]])

\* Two lists longer than the sample, with a pair of equal names inside it.
C24_Witness ==
    /\ Done
    /\ entry = "_check_cross_dependencies"
    /\ Len(args.reqs1) > 5
    /\ Len(args.reqs2) > 5
    /\ args.reqs1[1] = "Torch"
    /\ args.reqs2[4] = "torch"
    /\ Len(result.calls) \in 1..24
    /\ result.dependency_conflicts = result.calls

\* C25: for any requested version and list of distinct available versions
\* the suggested versions contain no version twice and are at most 8.
C25_SuggestionsDistinctCapped ==
    (Done /\ entry = "check_version_exists")
    => /\ Len(result.suggested_versions) <= 8
       /\ \A i, j \in 1..Len(result.suggested_versions) :
              result.suggested_versions[i] = result.suggested_versions[j] => i = j

\* Three similar versions, and five recent ones of which one is among them.
C25_Witness ==
    /\ Done
    /\ entry = "check_version_exists"
    /\ Len(result.similar_versions) >= 3
    /\ Len(result.recent_versions) = 5
    /\ \E i \in 1..3 : result.similar_versions[i] \in Range(result.recent_versions)
    /\ Len(result.suggested_versions) = 7

\* C26: parse_package_spec splits a specification at its leftmost version
\* operator: when the specification contains one of ==, >=, <=, >, <, the
\* name has no operator character and the constraint is the whole remainder
\* of the specification from that operator on.
C26_SplitAtLeftmostOperator ==
    (/\ Done
     /\ entry \in SpecParsers
     /\ \E op \in OperatorTexts : Find(args.package_spec, op) # 0)
    => /\ \A i \in 1..Len(result.name) : result.name[i] \notin {"=", ">", "<"}
       /\ result.name \o result.version_spec = args.package_spec

\* The version range an entry of the known-incompatibility table lists for
\* its first package: the entry of ('scikit-learn', 'numpy') lists >=1.2.0
\* (under the key 'sklearn_version').
ListedRangeA(incompatibility) ==
    IF incompatibility.pkg_a = "scikit-learn"
    THEN <<Clause(">=", <<1, 2, 0>>)>>
    ELSE incompatibility.a_constraint

\* C27: check_transitive_dependency_conflicts reports an entry of the table
\* only when both packages' versions lie in the entry's respective ranges.
C27_ReportedOnlyInsideRanges ==
    (Done /\ entry = "check_transitive_dependency_conflicts")
    => \A incompatibility \in result.conflicts :
          LET first_is_a == lower(args.pkg1_info.name) = lower(incompatibility.pkg_a)
              a_info == IF first_is_a THEN args.pkg1_info ELSE args.pkg2_info
              b_info == IF first_is_a THEN args.pkg2_info ELSE args.pkg1_info
          IN  /\ VersionInSpecifierSet(a_info.version, ListedRangeA(incompatibility))
              /\ VersionInSpecifierSet(b_info.version, incompatibility.b_constraint)

\* C28: whenever detect_hypothetical_conflicts resolves a spec that carries a
\* constraint, the version of the resolved descriptor satisfies that
\* constraint, so that no verdict rests on a version the caller excluded.
C28_ResolvedVersionSatisfiesConstraint ==
    (Done /\ entry = "detect_hypothetical_conflicts")
    => /\ Found(pkg1_info) => Satisfies(pkg1_info, package1)
       /\ Found(pkg2_info) => Satisfies(pkg2_info, package2)

\* C29: the requirements command yields a NoConflict verdict only when the
\* analysis recorded neither a version mismatch nor a cross-file dependency
\* conflict.
C29_NoConflictOnlyWithoutFindings ==
    (/\ pc = "reported"
     /\ entry = "cmd_requirements"
     /\ result.verdict.conflict_type = "NO_CONFLICT")
    => /\ result.analysis.version_mismatches = {}
       /\ result.analysis.dependency_conflicts = {}

\* The lowercase names of the lines of a requirement list.
LowerNames(reqs) == {lower(reqs[i].name) : i \in 1..Len(reqs)}

\* C30: the result of analyze_compatibility partitions the lowercase names:
\* file1_only, file2_only, compatible_packages and the packages of
\* version_mismatches are pairwise disjoint, each common name is in exactly
\* one of compatible_packages and version_mismatches, conflicts holds exactly
\* one entry per version mismatch, and total_packages is the sum of the four
\* sizes.
C30_ResultPartitionsNames ==
    (Done /\ entry = "analyze_compatibility" /\ "reqs1" \in DOMAIN args)
    => LET compatible == Range(result.compatible_packages)
           mismatched == {result.version_mismatches[i].package :
                             i \in 1..Len(result.version_mismatches)}
           common == LowerNames(args.reqs1) \cap LowerNames(args.reqs2)
       IN  /\ result.file1_only = LowerNames(args.reqs1) \ LowerNames(args.reqs2)
           /\ result.file2_only = LowerNames(args.reqs2) \ LowerNames(args.reqs1)
           /\ compatible \cap mismatched = {}
           /\ compatible \cup mismatched = common
           /\ Len(result.compatible_packages) = Cardinality(compatible)
           /\ Len(result.version_mismatches) = Cardinality(mismatched)
           /\ Len(result.conflicts) = Len(result.version_mismatches)
           /\ \A i \in 1..Len(result.conflicts) :
                  result.conflicts[i].package = result.version_mismatches[i].package
           /\ result.total_packages
                  = Cardinality(result.file1_only) + Cardinality(result.file2_only)
                    + Len(result.compatible_packages) + Len(result.version_mismatches)

\* A file that lists torch twice, a mismatch on torch and numpy compatible.
C30_Witness ==
    /\ Done
    /\ entry = "analyze_compatibility"
    /\ "reqs1" \in DOMAIN args
    /\ Len(args.reqs1) = 2
    /\ lower(args.reqs1[1].name) = lower(args.reqs1[2].name)
    /\ Len(result.version_mismatches) = 1
    /\ result.version_mismatches[1].package = "torch"
    /\ result.file2_only = {"numpy"}
    /\ result.total_packages = 2

=============================================================================
